---- MODULE Spec2Model ----
(***************************************************************************)
(* pgEdge Anonymizer: the anonymization engine.                            *)
(*                                                                         *)
(* The model covers the Value Dictionary (LRU tier, disk tier, reverse     *)
(* index), the FK analyzer (cascade targets, processing order), the batch  *)
(* processor (cursor, fetch, update), the scalar and the JSON column       *)
(* processor and the orchestrator's Run.                                   *)
(*                                                                         *)
(* Strings are sequences of one-character strings, so that suffixing and   *)
(* comparison are computed as the code computes them.                      *)
(***************************************************************************)
EXTENDS Integers, Sequences, FiniteSets, TLC

VARIABLES
    dictionary,      \* Dictionary: [cache, reverse, disk, rowids, diskLeft]
    cacheSize,       \* capacity of the LRU tier (NewDictionary's cacheSize)
    lastCall,        \* the last Dictionary call made through its API and its result
    prevDict,        \* the Dictionary as it was before that call
    columns,         \* the configured columns, in configuration order
    fks,             \* the foreign keys of the database, in catalog order
    mapOrder,        \* the order in which the map colSet is iterated
    unique,          \* the columns that are part of a primary key, of a
                     \* unique constraint or of a unique index
    enforced,        \* those of them whose key is the column alone, so that
                     \* the database rejects two equal values in the column
    batchSize,       \* rows per FETCH
    pre,             \* the tables as they were before the run
    catalog,         \* the columns that exist in the database
    script,          \* what the generator returns for the row of each ctid;
                     \* <<>> when it may return any value of GenVals
    generators,      \* the names registered in the generator Manager
    table,           \* the tables as the session sees them
    pc,              \* where Run is
    txState,         \* "None", "Active", "Committed", "RolledBack"
    err,             \* the error Run returns, "" when none
    errColumns,      \* the Columns of the ValidationError Run returns
    cancelled,       \* ctx.Done() is closed
    orderedColumns,  \* result of GetProcessingOrder
    skipSet,         \* the cascade targets
    idx,             \* position of Run's loop in orderedColumns
    cursor,          \* the rows the open cursor has still to return
    cursorOpen,      \* BatchProcessor.cursorOpen, of the processor made last
    batch,           \* the rows of the last fetch
    updates,         \* the update map of the batch, until it is applied
    ret,             \* what Process is returning: "" while it runs, "eof" or
                     \* the error
    first,           \* history: the first value stored for each original
    queued,          \* history: every entry put into an update map
    statsCols,       \* the columns recorded by the statistics collector
    log,             \* history: the statements sent to the database
    registry,        \* Registry.patterns: upper-cased name -> Pattern
    lastReg,         \* the last Registry or Loader call and its result
    prevRegistry,    \* the registry as it was before that call
    fnCall,          \* the last function called on its own: arguments, result
    calls            \* the Dictionary calls of each concurrent caller

dictVars == <<dictionary, cacheSize, lastCall, prevDict>>

regVars == <<registry, lastReg, prevRegistry>>

\* what is fixed when the run starts
inputVars == <<cacheSize, columns, fks, mapOrder, unique, enforced, batchSize, pre, catalog,
               script, generators>>

runVars == <<columns, fks, mapOrder, unique, enforced, batchSize, pre, catalog, script,
             generators, table, pc,
             txState, err, errColumns,
             cancelled, orderedColumns, skipSet, idx, cursor, cursorOpen,
             batch, updates, ret, first, queued, statsCols, log>>

vars == <<dictionary, cacheSize, lastCall, prevDict, columns, fks, mapOrder, unique,
          enforced,
          batchSize, pre, catalog, script, generators, table, pc, txState, err,
          errColumns,
          cancelled,
          orderedColumns,
          skipSet, idx, cursor, cursorOpen, batch, updates, ret, first, queued,
          statsCols, log,
          registry, lastReg, prevRegistry, fnCall, calls>>

----------------------------------------------------------------------------
(* Bounds of the model *)

\* largest LRU capacity explored
MaxCap == 2

\* most rows in a scalar column
MaxRows == 2

\* most elements in the array of a JSON document
MaxArr == 3

\* largest batch size explored
MaxBatch == 2

\* most foreign keys in the catalog
MaxFKs == 2

\* largest number of ON UPDATE CASCADE keys between configured columns
MaxCascades == 3

\* largest number of patterns in a pattern file
MaxFile == 2

\* longest string given to addUniqueSuffix
MaxLen == 3

\* largest suffix given to addUniqueSuffix
MaxSuffix == 12

\* concurrent callers of the Dictionary and calls of each
MaxCallers == 2

MaxCalls == 2

\* most statements the disk tier still answers once it has begun to fail:
\* a batch of MaxBatch rows of a unique column issues three statements for
\* each row, and the failure may begin at any of them
MaxDiskOps == 5

\* most UPDATE statements sent through UpdateRow in one transaction
MaxRowUpdates == 2

----------------------------------------------------------------------------
(* Strings *)

sA == <<"a">>
sX == <<"x">>
sY == <<"y">>
EmptyStr == <<>>

\* the original values stored in the tables; sX is also a value a generator
\* can produce
Originals == {sA, sX}

\* the values a generator can return
GenVals == {sX, sY}

----------------------------------------------------------------------------
(* Tier 1: the LRU cache, most recently used entry first *)

IndexOfKey(c, k) ==
    IF \E i \in 1..Len(c) : c[i][1] = k
    THEN CHOOSE i \in 1..Len(c) : c[i][1] = k
    ELSE 0

RemoveAt(s, i) == SubSeq(s, 1, i - 1) \o SubSeq(s, i + 1, Len(s))

\* lru.Cache.Get: a hit moves the entry to the front
LruGet(c, k) ==
    LET i == IndexOfKey(c, k)
    IN  IF i > 0
        THEN [ok |-> TRUE, val |-> c[i][2], cache |-> <<c[i]>> \o RemoveAt(c, i)]
        ELSE [ok |-> FALSE, val |-> EmptyStr, cache |-> c]

\* lru.Cache.Add: an existing key is updated and moved to the front; a new
\* key is put in front and the least recently used entry is evicted when
\* the cache is over capacity
LruAdd(c, k, v, size) ==
    LET i == IndexOfKey(c, k)
    IN  IF i > 0
        THEN <<(<<k, v>>)>> \o RemoveAt(c, i)
        ELSE LET n == <<(<<k, v>>)>> \o c
             IN  IF Len(n) > size THEN SubSeq(n, 1, size) ELSE n

----------------------------------------------------------------------------
(* Dictionary *)

\* the mappings table of a database file that holds no row
NoRows == <<>>

\* a database file: the rows of its mappings table, keyed by original, and
\* the originals in the order of their rowids
NoFile == [rows |-> NoRows, rowids |-> <<>>]

\* NewDictionary and initDiskCache: the database file is named after the
\* process id and its table is created IF NOT EXISTS, so the rows the file
\* already holds are kept; an error and no dictionary when the file cannot
\* be opened. diskLeft is the number of statements the disk tier will still
\* answer before it fails for good, -1 when it does not fail
NewDictionary(file, openOk) ==
    [err |-> ~openOk,
     d   |-> [cache |-> <<>>, reverse |-> {}, disk |-> file.rows,
              rowids |-> file.rowids, diskLeft |-> -1]]

\* the database file a dictionary has open
FileOf(d) == [rows |-> d.disk, rowids |-> d.rowids]

\* the dictionary of a process whose database file did not exist
FreshDictionary == NewDictionary(NoFile, TRUE).d

\* the disk tier answers the next statement
DiskUp(d) == d.diskLeft # 0

\* one statement has been answered by the disk tier
DiskOp(d) == IF d.diskLeft > 0 THEN [d EXCEPT !.diskLeft = @ - 1] ELSE d

\* the mappings table, keyed by original (INSERT OR REPLACE)
DiskPut(disk, o, a) ==
    [k \in (DOMAIN disk) \cup {o} |-> IF k = o THEN a ELSE disk[k]]

\* INSERT OR REPLACE deletes the row of the original, if any, and inserts
\* the new row with the highest rowid
RowidsPut(rowids, o) ==
    Append(SelectSeq(rowids, LAMBDA k : k # o), o)

\* Dictionary.Get: cache first, then the disk tier; a disk hit is promoted,
\* a failed query is answered like a missing row
Dictionary_Get(d, size, original) ==
    LET hit == LruGet(d.cache, original)
    IN  IF hit.ok
        THEN [ok |-> TRUE, val |-> hit.val, d |-> [d EXCEPT !.cache = hit.cache]]
        ELSE IF ~DiskUp(d)
        THEN [ok |-> FALSE, val |-> EmptyStr, d |-> d]
        ELSE IF original \in DOMAIN d.disk
             THEN [ok |-> TRUE, val |-> d.disk[original],
                   d |-> [DiskOp(d) EXCEPT !.cache =
                             LruAdd(d.cache, original, d.disk[original], size)]]
             ELSE [ok |-> FALSE, val |-> EmptyStr, d |-> DiskOp(d)]

\* setInternal that writes the LRU tier and the reverse map only
Dictionary_setInternalCacheOnly(d, size, original, anonymized) ==
    [d EXCEPT !.cache = LruAdd(d.cache, original, anonymized, size),
              !.reverse = @ \cup {anonymized}]

\* Dictionary.setInternal: cache, reverse map and disk tier; the result of
\* the INSERT is discarded, so a failed one leaves the table as it was
Dictionary_setInternal(d, size, original, anonymized) ==
    [cache    |-> LruAdd(d.cache, original, anonymized, size),
     reverse  |-> d.reverse \cup {anonymized},
     disk     |-> IF DiskUp(d) THEN DiskPut(d.disk, original, anonymized)
                  ELSE d.disk,
     rowids   |-> IF DiskUp(d) THEN RowidsPut(d.rowids, original)
                  ELSE d.rowids,
     diskLeft |-> DiskOp(d).diskLeft]

\* Dictionary.Set
Dictionary_Set(d, size, original, anonymized) ==
    Dictionary_setInternal(d, size, original, anonymized)

\* Dictionary.IsUsed: the reverse map first, then COUNT(*) on the disk tier;
\* a value found on disk is marked in the reverse map, a failed query is
\* answered false
Dictionary_IsUsed(d, anonymized) ==
    IF anonymized \in d.reverse
    THEN [ok |-> TRUE, d |-> d]
    ELSE IF ~DiskUp(d)
    THEN [ok |-> FALSE, d |-> d]
    ELSE IF \E o \in DOMAIN d.disk : d.disk[o] = anonymized
         THEN [ok |-> TRUE, d |-> [DiskOp(d) EXCEPT !.reverse = @ \cup {anonymized}]]
         ELSE [ok |-> FALSE, d |-> DiskOp(d)]

\* SetUnique without the same-original test
SameOriginalInCacheNever(d, original, anonymized) ==
    [ok |-> FALSE, cache |-> d.cache]

\* the same-original test of SetUnique: only the LRU tier is asked
SameOriginalInCache(d, original, anonymized) ==
    LET hit == LruGet(d.cache, original)
    IN  [ok |-> hit.ok /\ hit.val = anonymized, cache |-> hit.cache]

\* SELECT original FROM mappings WHERE anonymized = ?, of which QueryRow
\* scans the first row: of the rows that hold the value, the one with the
\* lowest rowid
DiskOriginalOf(d, anonymized) ==
    SelectSeq(d.rowids, LAMBDA o : d.disk[o] = anonymized)[1]

\* Dictionary.SetUnique
Dictionary_SetUnique(d, size, original, anonymized) ==
    IF anonymized \in d.reverse
    THEN LET same == SameOriginalInCache(d, original, anonymized)
         IN  [ok |-> same.ok, d |-> [d EXCEPT !.cache = same.cache]]
    ELSE IF DiskUp(d) /\ \E o \in DOMAIN d.disk : d.disk[o] = anonymized
         THEN \* found on disk (the row SQLite returns): mark it in the
              \* reverse map; it is fine when it is the same original
              [ok |-> DiskOriginalOf(d, anonymized) = original,
               d  |-> [DiskOp(d) EXCEPT !.reverse = @ \cup {anonymized}]]
         ELSE \* no row, or the query failed: taken as not used
              [ok |-> TRUE,
               d  |-> Dictionary_setInternal(DiskOp(d), size, original,
                                             anonymized)]

\* Dictionary.PreloadUsedValues
Dictionary_PreloadUsedValues(d, values) ==
    [d EXCEPT !.reverse = @ \cup values]

\* Dictionary.Close: the database handle is closed, so every later statement
\* fails, and the file is removed; the cache and the reverse map stay
Dictionary_Close(d) ==
    [d EXCEPT !.disk = NoRows, !.rowids = <<>>, !.diskLeft = 0]

\* history: the value most recently stored for each original, after a call
\* that stored anonymized for original when accepted (a call accepted on a
\* dictionary that is not closed)
StoredAfter(stored, original, anonymized, accepted) ==
    IF accepted
    THEN [k \in (DOMAIN stored) \cup {original} |->
             IF k = original THEN anonymized ELSE stored[k]]
    ELSE stored

\* a call without its history
Brief(call) == [op |-> call.op, original |-> call.original,
                anonymized |-> call.anonymized, ok |-> call.ok]

\* no call made yet through the API
NoCall == [op |-> "none", original |-> EmptyStr, anonymized |-> EmptyStr,
           ok |-> FALSE, val |-> EmptyStr, stored |-> <<>>,
           prev |-> [op |-> "none", original |-> EmptyStr,
                     anonymized |-> EmptyStr, ok |-> FALSE]]

----------------------------------------------------------------------------
(* FK analyzer *)

\* the cols of the database; "x" is never configured
AllCols == {"c1", "c2", "c3", "x"}

\* the table each column belongs to
TableOf(c) ==
    CASE c = "c1" -> "t1"
      [] c = "c2" -> "t2"
      [] c = "c3" -> "t3"
      [] OTHER    -> "tx"

SeqToSet(s) == {s[i] : i \in 1..Len(s)}

RECURSIVE SelectSeq2(_, _)
\* the subsequence of s whose elements are in the set keep
SelectSeq2(s, keep) ==
    IF s = <<>> THEN <<>>
    ELSE (IF Head(s) \in keep THEN <<Head(s)>> ELSE <<>>)
         \o SelectSeq2(Tail(s), keep)

\* FKAnalyzer.Analyze: the foreign keys whose parent or child table holds a
\* configured column, in the order the catalog query returns them
Analyze(allFks, cols) ==
    LET tables == {TableOf(cols[i]) : i \in 1..Len(cols)}
    IN  SelectSeq2(allFks, {fk \in SeqToSet(allFks) :
                               TableOf(fk.parent) \in tables
                               \/ TableOf(fk.child) \in tables})

\* GetCascadeTargets collecting the parent end of the key
GetCascadeTargetsParents(allFks, cols) ==
    LET fkList == Analyze(allFks, cols)
        updating == SeqToSet(cols)
    IN  {fkList[i].parent : i \in {j \in 1..Len(fkList) :
                                   fkList[j].onUpdate = "CASCADE"
                                   /\ fkList[j].parent \in updating}}

\* FKAnalyzer.GetCascadeTargets: the child of every ON UPDATE CASCADE key
\* whose parent column is being updated
GetCascadeTargets(allFks, cols) ==
    LET fkList == Analyze(allFks, cols)
        updating == SeqToSet(cols)
    IN  {fkList[i].child : i \in {j \in 1..Len(fkList) :
                                  fkList[j].onUpdate = "CASCADE"
                                  /\ fkList[j].parent \in updating}}

RECURSIVE DepsOfReversed(_, _, _)
\* DepsOf with the edge turned round: the children of a parent are recorded
\* as its dependencies
DepsOfReversed(fkList, colSet, child) ==
    IF fkList = <<>> THEN <<>>
    ELSE LET fk == Head(fkList)
         IN  (IF fk.onUpdate = "CASCADE" /\ fk.parent \in colSet
                 /\ fk.child \in colSet /\ fk.parent = child
              THEN <<fk.child>> ELSE <<>>)
             \o DepsOfReversed(Tail(fkList), colSet, child)

RECURSIVE DepsOfUnchecked(_, _, _)
\* DepsOf without the test that both ends of the key are configured
DepsOfUnchecked(fkList, colSet, child) ==
    IF fkList = <<>> THEN <<>>
    ELSE LET fk == Head(fkList)
         IN  (IF fk.onUpdate = "CASCADE" /\ fk.child = child
              THEN <<fk.parent>> ELSE <<>>)
             \o DepsOfUnchecked(Tail(fkList), colSet, child)

RECURSIVE DepsOf(_, _, _)
\* deps[child]: the parents of child, in the order of the CASCADE keys whose
\* two ends are both configured
DepsOf(fkList, colSet, child) ==
    IF fkList = <<>> THEN <<>>
    ELSE LET fk == Head(fkList)
         IN  (IF fk.onUpdate = "CASCADE" /\ fk.parent \in colSet
                 /\ fk.child \in colSet /\ fk.child = child
              THEN <<fk.parent>> ELSE <<>>)
             \o DepsOf(Tail(fkList), colSet, child)

\* visit that marks the key as visited on entry instead of marking temp
VisitEnterVisited(st, key) == [st EXCEPT !.visited = @ \cup {key}]

\* visit, lines 237 and 243-245: mark temp, and when the dependencies are
\* done clear temp, mark visited and append to the result
VisitEnter(st, key) == [st EXCEPT !.temp = @ \cup {key}]

VisitLeave(st, key) ==
    [st EXCEPT !.temp = @ \ {key},
               !.visited = @ \cup {key},
               !.result = Append(@, key)]

RECURSIVE visit(_, _, _, _), visitDeps(_, _, _, _)
\* the closure visit of GetProcessingOrder; st = [result, visited, temp, err]
visit(st, fkList, colSet, key) ==
    IF st.err # "" THEN st
    ELSE IF key \in st.temp
    THEN [st EXCEPT !.err = "circular dependency"]
    ELSE IF key \in st.visited THEN st
    ELSE LET st2 == visitDeps(VisitEnter(st, key), fkList, colSet,
                              DepsOf(fkList, colSet, key))
         IN  IF st2.err # "" THEN st2 ELSE VisitLeave(st2, key)

visitDeps(st, fkList, colSet, deps) ==
    IF deps = <<>> \/ st.err # "" THEN st
    ELSE visitDeps(visit(st, fkList, colSet, Head(deps)), fkList, colSet, Tail(deps))

RECURSIVE visitAll(_, _, _, _)
\* for key := range colSet, in the order the map iteration yields the keys
visitAll(st, fkList, colSet, keys) ==
    IF keys = <<>> \/ st.err # "" THEN st
    ELSE visitAll(visit(st, fkList, colSet, Head(keys)), fkList, colSet, Tail(keys))

\* FKAnalyzer.GetProcessingOrder; iter is the iteration order of colSet
GetProcessingOrder(allFks, cols, iter) ==
    LET fkList == Analyze(allFks, cols)
        colSet == SeqToSet(cols)
        st == visitAll([result |-> <<>>, visited |-> {}, temp |-> {}, err |-> ""],
                       fkList, colSet, iter)
    IN  [order |-> IF st.err = "" THEN st.result ELSE <<>>, err |-> st.err]

----------------------------------------------------------------------------
(* Scalar column processor *)

\* maximum number of suffixed candidates tried after a collision
maxCollisionRetries == 100

Digit(n) == <<"0", "1", "2", "3", "4", "5", "6", "7", "8", "9">>[n + 1]

RECURSIVE Itoa(_)
\* the decimal digits of n >= 0 (fmt %d)
Itoa(n) == IF n < 10 THEN <<Digit(n)>> ELSE Itoa(n \div 10) \o <<Digit(n % 10)>>

\* strings.LastIndex(value, "@"), 0-based; -1 when there is none
LastIndexAt(value) ==
    IF \E i \in 1..Len(value) : value[i] = "@"
    THEN (CHOOSE i \in 1..Len(value) :
              /\ value[i] = "@"
              /\ \A j \in (i + 1)..Len(value) : value[j] # "@") - 1
    ELSE -1

\* addUniqueSuffix
addUniqueSuffix(value, suffix) ==
    LET at == LastIndexAt(value)
    IN  IF at > 0
        THEN SubSeq(value, 1, at) \o Itoa(suffix)
             \o SubSeq(value, at + 1, Len(value))
        ELSE value \o Itoa(suffix)

\* a loop that ends without an accepted candidate and goes on with the base
RetriesExhaustedIgnored(base, d) == [found |-> TRUE, val |-> base, d |-> d]

\* the loop ended with found still false (lines 143-147)
RetriesExhausted(base, d) == [found |-> FALSE, val |-> base, d |-> d]

RECURSIVE RetryWithSuffixChained(_, _, _, _, _)
\* a retry loop that suffixes the previous candidate
RetryWithSuffixChained(d, size, original, base, i) ==
    IF i > maxCollisionRetries
    THEN [found |-> FALSE, val |-> base, d |-> d]
    ELSE LET Tried(anonymized, r) ==
                 IF r.ok
                 THEN [found |-> TRUE, val |-> anonymized, d |-> r.d]
                 ELSE RetryWithSuffixChained(r.d, size, original, anonymized, i + 1)
         IN  Tried(addUniqueSuffix(base, i),
                   Dictionary_SetUnique(d, size, original,
                                        addUniqueSuffix(base, i)))

RECURSIVE RetryWithSuffix(_, _, _, _, _)
\* the retry loop of Process: for i := 1; i <= maxCollisionRetries; i++
RetryWithSuffix(d, size, original, base, i) ==
    IF i > maxCollisionRetries
    THEN RetriesExhausted(base, d)
    ELSE LET Tried(anonymized, r) ==
                 IF r.ok
                 THEN [found |-> TRUE, val |-> anonymized, d |-> r.d]
                 ELSE RetryWithSuffix(r.d, size, original, base, i + 1)
         IN  Tried(addUniqueSuffix(base, i),
                   Dictionary_SetUnique(d, size, original,
                                        addUniqueSuffix(base, i)))

\* the store made on a dictionary miss by Process (lines 127-152):
\* SetUnique with retries for a unique column, Set otherwise
StoreNew(d, size, original, generated, hasUniqueConstraint) ==
    IF hasUniqueConstraint
    THEN LET Tried(r) ==
                 IF r.ok
                 THEN [found |-> TRUE, val |-> generated, d |-> r.d]
                 ELSE RetryWithSuffix(r.d, size, original, generated, 1)
         IN  Tried(Dictionary_SetUnique(d, size, original, generated))
    ELSE [found |-> TRUE, val |-> generated,
          d |-> Dictionary_Set(d, size, original, generated)]

\* the history of first stores: every original newly present in the disk
\* tier is recorded with the value stored for it
RecordFirst(firstMap, d) ==
    [o \in (DOMAIN firstMap) \cup (DOMAIN d.disk) |->
        IF o \in DOMAIN firstMap THEN firstMap[o] ELSE d.disk[o]]

\* one row of the batch in Process (lines 115-164); generated is what the
\* generator returns for this row when it is asked.
\* st = [d, updates, first, err, values]
ProcessRow(st, size, row, generated, hasUniqueConstraint) ==
    IF st.err # "" THEN st
    ELSE IF row.value = EmptyStr THEN st
    ELSE LET Stored(r) ==
                 IF ~r.found
                 THEN [st EXCEPT !.d = r.d,
                                 !.first = RecordFirst(@, r.d),
                                 !.err = "retry"]
                 ELSE [st EXCEPT !.d = r.d,
                                 !.first = RecordFirst(@, r.d),
                                 !.updates = Append(@, [ctid |-> row.ctid,
                                                        value |-> r.val]),
                                 !.values = @ + 1]
             Looked(got) ==
                 IF got.ok
                 THEN [st EXCEPT !.d = got.d,
                                 !.updates = Append(@, [ctid |-> row.ctid,
                                                        value |-> got.val]),
                                 !.values = @ + 1]
                 ELSE Stored(StoreNew(got.d, size, row.value, generated,
                                      hasUniqueConstraint))
         IN  Looked(Dictionary_Get(st.d, size, row.value))

RECURSIVE ProcessRows(_, _, _, _, _)
\* for _, row := range rows; gens[i] is the generator's output for row i
ProcessRows(st, size, rows, gens, hasUniqueConstraint) ==
    IF rows = <<>> THEN st
    ELSE ProcessRows(ProcessRow(st, size, Head(rows), Head(gens),
                                hasUniqueConstraint),
                     size, Tail(rows), Tail(gens), hasUniqueConstraint)

----------------------------------------------------------------------------
(* JSON path processor and JSON column processor *)

(* A JSON document of the modelled column is {"a": [e1, ..., en]}, each    *)
(* element an object in which the field f is absent, null, a number or a   *)
(* string: [kind |-> "json", arr |-> <<[t |-> .., s |-> ..], ...>>].       *)
(* kind "invalid" is a text that does not parse, kind "empty" the empty    *)
(* text.                                                                   *)

\* the configured path $.a[*].f
PathExpr == <<"$", ".", "a", "[", "*", "]", ".", "f">>

Wild == <<"[", "*", "]">>

StrElem(v) == [t |-> "str", s |-> v]

\* the 1-based position of the first "[*]" in pathExpr, 0 when there is none
FirstWildcard(pathExpr) ==
    LET hits == {p \in 1..Len(pathExpr) :
                    p + 2 <= Len(pathExpr) /\ SubSeq(pathExpr, p, p + 2) = Wild}
    IN  IF hits = {} THEN 0 ELSE CHOOSE p \in hits : \A q \in hits : p <= q

\* buildConcretePath
buildConcretePath(pathExpr, index, total) ==
    IF total = 1 THEN pathExpr
    ELSE LET p == FirstWildcard(pathExpr)
         IN  IF p = 0 THEN pathExpr
             ELSE SubSeq(pathExpr, 1, p - 1) \o <<"[">> \o Itoa(index) \o <<"]">>
                  \o SubSeq(pathExpr, p + 3, Len(pathExpr))

RECURSIVE Atoi(_)
Atoi(ds) ==
    IF ds = <<>> THEN 0
    ELSE Atoi(SubSeq(ds, 1, Len(ds) - 1)) * 10
         + (CHOOSE n \in 0..9 : Digit(n) = ds[Len(ds)])

\* the array selector of a parsed path: -1 for [*], otherwise the index
PathSelector(path) ==
    LET lb == CHOOSE i \in 1..Len(path) : path[i] = "["
        rb == CHOOSE i \in 1..Len(path) : path[i] = "]"
        sel == SubSeq(path, lb + 1, rb - 1)
    IN  IF sel = <<"*">> THEN -1 ELSE Atoi(sel)

RECURSIVE PathGet(_)
\* jp path.Get for $.a[*].f: the value of f in every element that has the
\* field, in array order
PathGet(arr) ==
    IF arr = <<>> THEN <<>>
    ELSE (IF Head(arr).t # "missing" THEN <<Head(arr)>> ELSE <<>>)
         \o PathGet(Tail(arr))

RECURSIVE CollectMatches(_, _, _)
\* the loop of Extract over the results, from the 0-based index i on
CollectMatches(results, pathExpr, i) ==
    IF i >= Len(results) THEN <<>>
    ELSE (IF results[i + 1].t = "str"
          THEN <<[path  |-> buildConcretePath(pathExpr, i, Len(results)),
                  value |-> results[i + 1].s]>>
          ELSE <<>>)
         \o CollectMatches(results, pathExpr, i + 1)

\* Processor.Extract
Extract(doc, pathExpr) ==
    IF doc.kind # "json"
    THEN [err |-> "invalid JSON", matches |-> <<>>]
    ELSE [err |-> "", matches |-> CollectMatches(PathGet(doc.arr), pathExpr, 0)]

\* jp path.Set of one concrete path: the field f of every selected element
\* becomes the string newValue (a missing field is added)
PathSet(arr, path, newValue) ==
    LET sel == PathSelector(path)
    IN  [j \in 1..Len(arr) |->
            IF sel = -1 \/ sel = j - 1 THEN StrElem(newValue) ELSE arr[j]]

RECURSIVE ReplaceAll(_, _, _)
ReplaceAll(arr, replacements, paths) ==
    IF paths = {} THEN arr
    ELSE LET path == CHOOSE q \in paths : TRUE
         IN  ReplaceAll(PathSet(arr, path, replacements[path]),
                        replacements, paths \ {path})

\* Processor.Replace; replacements is a map from concrete path to value
Replace(doc, replacements) ==
    IF DOMAIN replacements = {} THEN [err |-> "", doc |-> doc]
    ELSE IF doc.kind # "json" THEN [err |-> "invalid JSON", doc |-> doc]
    ELSE [err |-> "",
          doc |-> [doc EXCEPT !.arr =
                      ReplaceAll(@, replacements, DOMAIN replacements)]]

\* replacements[match.Path] = anonymized
MapPut(m, k, v) == [q \in (DOMAIN m) \cup {k} |-> IF q = k THEN v ELSE m[q]]

RECURSIVE AnonymizeMatches(_, _, _, _)
\* the loop over the matches in processJSONValue (lines 176-187);
\* st = [d, first, replacements, count]
AnonymizeMatches(st, size, matches, gens) ==
    IF matches = <<>> THEN st
    ELSE LET match == Head(matches)
             Anonymized(d2, anonymized) ==
                 [d |-> d2,
                  first |-> RecordFirst(st.first, d2),
                  replacements |-> MapPut(st.replacements, match.path, anonymized),
                  count |-> st.count + 1]
             Looked(got) ==
                 IF got.ok
                 THEN Anonymized(got.d, got.val)
                 ELSE Anonymized(Dictionary_Set(got.d, size, match.value,
                                                Head(gens)),
                                 Head(gens))
         IN  AnonymizeMatches(Looked(Dictionary_Get(st.d, size, match.value)),
                              size, Tail(matches), Tail(gens))

\* JSONColumnProcessor.processJSONValue
processJSONValue(d, firstMap, size, doc, gens) ==
    LET Replaced(st, rep) ==
            [err |-> rep.err, doc |-> rep.doc,
             count |-> IF rep.err = "" THEN st.count ELSE 0,
             d |-> st.d, first |-> st.first]
        Anonymized(st) == Replaced(st, Replace(doc, st.replacements))
        Extracted(ex) ==
            IF ex.err # ""
            THEN [err |-> ex.err, doc |-> doc, count |-> 0, d |-> d,
                  first |-> firstMap]
            ELSE IF ex.matches = <<>>
            THEN [err |-> "", doc |-> doc, count |-> 0, d |-> d,
                  first |-> firstMap]
            ELSE Anonymized(AnonymizeMatches(
                                [d |-> d, first |-> firstMap,
                                 replacements |-> <<>>, count |-> 0],
                                size, ex.matches, gens))
    IN  Extracted(Extract(doc, PathExpr))

\* the error of a row returned to the caller of Process
RowFailedAbort(st, r) == [st EXCEPT !.err = r.err]

\* Process lines 118-125: the error of a row is logged and the row skipped
RowFailed(st, r) == [st EXCEPT !.d = r.d, !.first = r.first]

\* one row of the batch in JSONColumnProcessor.Process (lines 106-128)
ProcessJSONRow(st, size, row, gens) ==
    IF row.value.kind = "empty" THEN st
    ELSE LET Processed(r) ==
                 IF r.err # ""
                 THEN RowFailed(st, r)
                 ELSE IF r.count > 0
                 THEN [st EXCEPT !.d = r.d, !.first = r.first,
                                 !.updates = Append(@, [ctid |-> row.ctid,
                                                        value |-> r.doc]),
                                 !.values = @ + r.count]
                 ELSE [st EXCEPT !.d = r.d, !.first = r.first]
         IN  Processed(processJSONValue(st.d, st.first, size, row.value, gens))

RECURSIVE ProcessJSONRows(_, _, _, _)
\* for _, row := range rows; gens[i] are the generator's outputs for row i
ProcessJSONRows(st, size, rows, gens) ==
    IF rows = <<>> THEN st
    ELSE ProcessJSONRows(ProcessJSONRow(st, size, Head(rows), Head(gens)),
                         size, Tail(rows), Tail(gens))

----------------------------------------------------------------------------
(* Tables, cursor and batch update *)

\* a row of a scalar column: SQL NULL or a text
Null == [null |-> TRUE, val |-> EmptyStr]
Val(v) == [null |-> FALSE, val |-> v]

\* a row of the JSON column
NoDoc == [kind |-> "sqlnull", arr |-> <<>>]
JNull == [null |-> TRUE, val |-> NoDoc]
Doc(arr) == [kind |-> "json", arr |-> arr]

IsJSONColumn(c) == c = "c3"

\* the pattern name the configuration gives to a column: cc.Pattern, or the
\* Pattern of the path of a JSON column
PatternOf(c) ==
    CASE c = "c1" -> "EMAIL"
      [] c = "c2" -> "NAME"
      [] c = "c3" -> "PHONE"
      [] OTHER    -> "CITY"

AllGenerators == {PatternOf(c) : c \in AllCols}

\* Manager.Get: whether a generator is registered under the name
Manager_Get(gens, name) == name \in gens

\* the cursor's query without its WHERE clause: every row is returned
CursorRowsAll(rows) ==
    [i \in 1..Len(rows) |-> [ctid |-> i, value |-> rows[i].val]]

\* DECLARE ... CURSOR FOR SELECT ctid, col FROM t WHERE col IS NOT NULL:
\* the rows the cursor will return, in physical order
CursorRows(rows) ==
    LET keep == {i \in 1..Len(rows) : ~rows[i].null}
        Nth(k) == CHOOSE i \in keep : Cardinality({j \in keep : j <= i}) = k
    IN  [k \in 1..Cardinality(keep) |->
            [ctid |-> Nth(k), value |-> rows[Nth(k)].val]]

\* FETCH n FROM cursor
FetchRows(cur, n) == SubSeq(cur, 1, IF Len(cur) < n THEN Len(cur) ELSE n)

\* a cursor that does not advance
RestRowsStuck(cur, n) == cur

\* what the cursor has still to return after FETCH n
RestRows(cur, n) == SubSeq(cur, (IF Len(cur) < n THEN Len(cur) ELSE n) + 1, Len(cur))

\* UPDATE t SET col = u.new_value FROM unnest(ctids, values) u WHERE t.ctid = u.ctid
ApplyUpdates(rows, upd) ==
    [i \in 1..Len(rows) |->
        IF \E k \in 1..Len(upd) : upd[k].ctid = i
        THEN Val(upd[CHOOSE k \in 1..Len(upd) : upd[k].ctid = i].value)
        ELSE rows[i]]

\* two rows of the column hold the same non-null value
HasDuplicates(rows) ==
    \E i, j \in 1..Len(rows) :
        i # j /\ ~rows[i].null /\ ~rows[j].null /\ rows[i].val = rows[j].val

\* UpdateBatch lines 189-193: ExecContext returns an error; PostgreSQL
\* rejects a statement that leaves two equal non-null values in a column
\* whose unique key is the column alone. The check is made here when the
\* statement ends, which is the latest PostgreSQL makes it.
UniqueViolation(rows, keyIsColumn) ==
    keyIsColumn /\ HasDuplicates(rows)

\* SchemaValidator.HasUniqueConstraint: the column is one of the columns of
\* a primary key or unique constraint (a.attnum = ANY(c.conkey)) or of a
\* unique index (a.attnum = ANY(i.indkey)), alone or with other columns
HasUniqueConstraint(col) == col \in unique

\* the unique key of the column is the column alone
KeyIsColumn(col) == col \in enforced

----------------------------------------------------------------------------
(* Pattern registry and loader *)

\* strings.ToUpper that leaves the letters as they are
ToUpperNone(name) == name

\* strings.ToUpper over the letters of the modelled names
ToUpper(name) ==
    [i \in DOMAIN name |->
        CASE name[i] = "a" -> "A"
          [] name[i] = "b" -> "B"
          [] OTHER -> name[i]]

\* NewRegistry
NewRegistry == <<>>

\* Registry.Add
Registry_Add(r, p) ==
    LET name == ToUpper(p.name)
    IN  IF name \in DOMAIN r
        THEN [err |-> "pattern already exists", patterns |-> r]
        ELSE [err |-> "", patterns |-> MapPut(r, name, p)]

\* the zero Pattern
NoPattern == [name |-> EmptyStr, replacement |-> "", format |-> ""]

\* Registry.Get
Registry_Get(r, name) ==
    IF ToUpper(name) \in DOMAIN r
    THEN [pattern |-> r[ToUpper(name)], ok |-> TRUE]
    ELSE [pattern |-> NoPattern, ok |-> FALSE]

\* Registry.Count
Registry_Count(r) == Cardinality(DOMAIN r)

RECURSIVE ValidatePatterns(_)
\* LoadFile lines 115-126: the first pattern without a name, or with
\* neither replacement nor format, is an error
ValidatePatterns(ps) ==
    IF ps = <<>> THEN ""
    ELSE IF Head(ps).name = EmptyStr THEN "empty name"
    ELSE IF Head(ps).replacement = "" /\ Head(ps).format = ""
    THEN "no replacement or format"
    ELSE ValidatePatterns(Tail(ps))

\* Loader.LoadFile; file is what the YAML holds, readOk whether the file
\* could be read and parsed
LoadFile(file, readOk) ==
    IF ~readOk THEN [err |-> "read", patterns |-> <<>>]
    ELSE IF ValidatePatterns(file) # ""
    THEN [err |-> ValidatePatterns(file), patterns |-> <<>>]
    ELSE [err |-> "", patterns |-> file]

RECURSIVE AddAll(_, _)
\* for _, p := range pf.Patterns { if err := registry.Add(p) ... return err }
AddAll(r, ps) ==
    IF ps = <<>> THEN [err |-> "", patterns |-> r]
    ELSE LET Added(a) == IF a.err # "" THEN a ELSE AddAll(a.patterns, Tail(ps))
         IN  Added(Registry_Add(r, Head(ps)))

\* Loader.LoadToRegistry
LoadToRegistry(r, file, readOk) ==
    LET Loaded(pf) ==
            IF pf.err # "" THEN [err |-> pf.err, patterns |-> r]
            ELSE AddAll(r, pf.patterns)
    IN  Loaded(LoadFile(file, readOk))

RECURSIVE Conflicts(_, _)
\* MergeToRegistry lines 156-162: the names of the file the registry has
Conflicts(r, ps) ==
    IF ps = <<>> THEN <<>>
    ELSE (IF Registry_Get(r, Head(ps).name).ok THEN <<Head(ps).name>> ELSE <<>>)
         \o Conflicts(r, Tail(ps))

\* Loader.MergeToRegistry
MergeToRegistry(r, file, readOk) ==
    LET Loaded(pf) ==
            IF pf.err # "" THEN [err |-> pf.err, patterns |-> r]
            ELSE IF Len(Conflicts(r, pf.patterns)) > 0
            THEN [err |-> "conflict", patterns |-> r]
            ELSE AddAll(r, pf.patterns)
    IN  Loaded(LoadFile(file, readOk))

\* no call made yet
NoRegCall == [op |-> "none", pattern |-> NoPattern, name |-> EmptyStr,
              file |-> <<>>, readOk |-> TRUE, err |-> "", ok |-> FALSE,
              got |-> NoPattern]

\* no function called on its own
NoFnCall == [op |-> "none", value |-> EmptyStr, suffix |-> 0, result |-> EmptyStr]

\* the registry before any pattern file is loaded
RegistryIdle ==
    /\ registry = NewRegistry
    /\ lastReg = NoRegCall
    /\ prevRegistry = NewRegistry

----------------------------------------------------------------------------
(* SchemaValidator *)

\* ValidateColumns that reports nothing
ValidateColumnsNone(cols, existing) == <<>>

\* ValidateColumns: the configured columns the catalog does not hold, in
\* configuration order
ValidateColumns(cols, existing) ==
    IF Len(cols) = 0
    THEN <<>>
    ELSE SelectSeq2(cols, SeqToSet(cols) \ existing)

----------------------------------------------------------------------------
(* Orchestrator: Anonymizer.Run *)

Ev(op, col) == [op |-> op, col |-> col]

\* the deferred function without its rollback
deferredRollbackSkipped(committed, state, tbl, preTbl) ==
    [txState |-> state, table |-> tbl, log |-> <<>>]

\* the deferred function of Run (lines 154-159): tx.Rollback() unless
\* committed; on a transaction that is already done (rolled back on
\* cancellation, or ended by a failed COMMIT) it sends nothing
deferredRollback(committed, state, tbl, preTbl) ==
    IF ~committed /\ state = "Active"
    THEN [txState |-> "RolledBack", table |-> preTbl, log |-> <<Ev("rollback", "")>>]
    ELSE [txState |-> state, table |-> tbl, log |-> <<>>]

\* the answers of a statement issued with the context of the run: with the
\* context done it is not sent and the call returns the context's error
Answers(ctxDone) == IF ctxDone THEN {FALSE} ELSE BOOLEAN

\* the statement as it reaches the database
Sent(ctxDone, op, col) == IF ctxDone THEN <<>> ELSE <<Ev(op, col)>>

\* BatchProcessor.CloseCursor as Process defers it: nothing to do on a cursor
\* that is not open; with the context done the statement is not sent; the
\* field is cleared only when CLOSE succeeds, and Process drops the error
CloseCursor(open, ctxDone, closeOk, col) ==
    IF ~open
    THEN [cursorOpen |-> FALSE, evs |-> <<>>]
    ELSE IF ctxDone
    THEN [cursorOpen |-> TRUE, evs |-> <<>>]
    ELSE [cursorOpen |-> ~closeOk, evs |-> <<Ev("close", col)>>]

\* BatchProcessor.FetchBatch: an error without a query when the cursor is not
\* open or the context is done, else FETCH of at most n rows, which may fail
FetchBatch(open, ctxDone, dbOk, cur, n, col) ==
    IF ~open \/ ctxDone
    THEN [err |-> TRUE, evs |-> <<>>, rows |-> <<>>]
    ELSE IF ~dbOk
    THEN [err |-> TRUE, evs |-> <<Ev("fetch", col)>>, rows |-> <<>>]
    ELSE [err |-> FALSE, evs |-> <<Ev("fetch", col)>>, rows |-> FetchRows(cur, n)]

\* Run returns: the deferred a.dictionary.Close() (line 100)
ReturnClose == dictionary' = Dictionary_Close(dictionary)

\* Run returns an error after the transaction was begun; evs are the
\* statements sent on the way out, open is the cursor flag left behind
ReturnError(kind, evs, open) ==
    LET r == deferredRollback(FALSE, txState, table, pre)
    IN  /\ err' = kind
        /\ pc' = "done"
        /\ txState' = r.txState
        /\ table' = r.table
        /\ log' = log \o evs \o r.log
        /\ cursor' = <<>>
        /\ cursorOpen' = open
        /\ batch' = <<>>
        /\ updates' = <<>>
        /\ ret' = ""
        /\ ReturnClose

\* lines 102-145: the columns are validated against the catalog, then the
\* processing order and the cascade targets are computed; any of the catalog
\* queries may fail, and fails when the context is done
Preflight ==
    /\ pc = "start"
    /\ \E dbOk \in Answers(cancelled) :
         LET missing == ValidateColumns(columns, catalog)
             ord == GetProcessingOrder(fks, columns, mapOrder)
         IN  IF ~dbOk
             THEN /\ err' = "catalog"
                  /\ pc' = "done"
                  /\ ReturnClose
                  /\ UNCHANGED <<errColumns, orderedColumns, skipSet>>
             ELSE IF Len(missing) > 0
             THEN /\ err' = "validation"
                  /\ errColumns' = missing
                  /\ pc' = "done"
                  /\ ReturnClose
                  /\ UNCHANGED <<orderedColumns, skipSet>>
             ELSE IF ord.err # ""
             THEN /\ err' = "ordering"
                  /\ pc' = "done"
                  /\ ReturnClose
                  /\ UNCHANGED <<errColumns, orderedColumns, skipSet>>
             ELSE /\ orderedColumns' = ord.order
                  /\ skipSet' = GetCascadeTargets(fks, columns)
                  /\ pc' = "begin"
                  /\ err' = ""
                  /\ UNCHANGED <<errColumns, dictionary>>
    /\ UNCHANGED <<lastCall, prevDict, inputVars, regVars, fnCall, calls, table, txState,
                   cancelled, idx, cursor, cursorOpen, batch, updates, ret,
                   first, queued, statsCols, log>>

\* lines 147-151: BeginTx
BeginTx ==
    /\ pc = "begin"
    /\ \E dbOk \in Answers(cancelled) :
         IF dbOk
         THEN /\ txState' = "Active"
              /\ pc' = "column"
              /\ idx' = 1
              /\ log' = Append(log, Ev("begin", ""))
              /\ err' = ""
              /\ UNCHANGED dictionary
         ELSE /\ err' = "begin"
              /\ pc' = "done"
              /\ ReturnClose
              /\ UNCHANGED <<txState, idx, log>>
    /\ UNCHANGED <<lastCall, prevDict, inputVars, regVars, fnCall, calls, errColumns, table, cancelled,
                   orderedColumns, skipSet, cursor, cursorOpen, batch, updates,
                   ret, first, queued, statsCols>>

\* lines 165-186: the next column of the order is skipped as a cascade
\* target, or its data type is read from the catalog
NextColumn ==
    /\ pc = "column"
    /\ idx <= Len(orderedColumns)
    /\ LET col == orderedColumns[idx]
       IN  IF col \in skipSet
           THEN /\ idx' = idx + 1
                /\ UNCHANGED <<pc, err, txState, table, log, cursor, cursorOpen,
                               batch, updates, ret, dictionary>>
           ELSE \E dbOk \in Answers(cancelled) :
                  IF dbOk
                  THEN /\ pc' = "dispatch"
                       /\ UNCHANGED <<idx, err, txState, table, log, cursor,
                                      cursorOpen, batch, updates, ret, dictionary>>
                  ELSE /\ ReturnError("catalog", <<>>, cursorOpen)
                       /\ UNCHANGED idx
    /\ UNCHANGED <<lastCall, prevDict, inputVars, regVars, fnCall, calls, errColumns,
                   cancelled, orderedColumns, skipSet, first, queued, statsCols>>

\* processSimpleColumn lines 260-275 and processJSONColumn lines 295-304:
\* the generator of the pattern is looked up, and for a scalar column the
\* catalog is asked for a unique constraint
ProcessColumn ==
    /\ pc = "dispatch"
    /\ LET col == orderedColumns[idx]
       IN  IF ~Manager_Get(generators, PatternOf(col))
           THEN ReturnError("pattern", <<>>, cursorOpen)
           ELSE IF IsJSONColumn(col)
           THEN /\ pc' = "open"
                /\ UNCHANGED <<err, txState, table, log, cursor, cursorOpen,
                               batch, updates, ret, dictionary>>
           ELSE \E dbOk \in Answers(cancelled) :
                  IF dbOk
                  THEN /\ pc' = "open"
                       /\ UNCHANGED <<err, txState, table, log, cursor,
                                      cursorOpen, batch, updates, ret, dictionary>>
                  ELSE ReturnError("catalog", <<>>, cursorOpen)
    /\ UNCHANGED <<lastCall, prevDict, inputVars, regVars, fnCall, calls, errColumns,
                   cancelled, orderedColumns, skipSet, idx, first, queued,
                   statsCols>>

\* Process lines 83-89 and BatchProcessor.OpenCursor: Process makes a new
\* BatchProcessor, whose field is clear, and sends DECLARE; the field is
\* set when the statement succeeds
OpenCursor ==
    /\ pc = "open"
    /\ LET col == orderedColumns[idx]
       IN  \E dbOk \in Answers(cancelled) :
             IF dbOk
             THEN /\ cursor' = CursorRows(table[col])
                  /\ cursorOpen' = TRUE
                  /\ log' = Append(log, Ev("declare", col))
                  /\ pc' = "loop"
                  /\ UNCHANGED <<err, txState, table, batch, updates, ret,
                                 dictionary>>
             ELSE ReturnError("cursor_open", Sent(cancelled, "declare", col),
                              FALSE)
    /\ UNCHANGED <<lastCall, prevDict, inputVars, regVars, fnCall, calls, errColumns,
                   cancelled, orderedColumns, skipSet, idx, first, queued,
                   statsCols>>

\* a loop without the cancellation check
CancelSeenNever(isCancelled) == FALSE

\* the cancellation check of Process (lines 95-100)
CancelSeen(isCancelled) == isCancelled

\* Process lines 94-100: the cancellation check at the head of the loop
CheckCancelled ==
    /\ pc = "loop"
    /\ IF CancelSeen(cancelled)
       THEN /\ ret' = "cancelled"
            /\ pc' = "close"
       ELSE /\ pc' = "fetch"
            /\ UNCHANGED ret
    /\ UNCHANGED <<dictionary, lastCall, prevDict, inputVars, regVars, fnCall, calls, errColumns,
                   table, txState, err, cancelled, orderedColumns, skipSet, idx,
                   cursor, cursorOpen, batch, updates, first, queued, statsCols,
                   log>>

\* Process lines 102-110: FetchBatch; a zero-length fetch ends the loop
LoopFetch ==
    /\ pc = "fetch"
    /\ LET col == orderedColumns[idx]
       IN  \E dbOk \in BOOLEAN :
             LET f == FetchBatch(cursorOpen, cancelled, dbOk, cursor, batchSize,
                                 col)
             IN  /\ log' = log \o f.evs
                 /\ IF f.err
                    THEN /\ ret' = "fetch"
                         /\ pc' = "close"
                         /\ UNCHANGED <<batch, cursor>>
                    ELSE IF Len(f.rows) = 0
                    THEN /\ ret' = "eof"
                         /\ pc' = "close"
                         /\ UNCHANGED <<batch, cursor>>
                    ELSE /\ batch' = f.rows
                         /\ cursor' = RestRows(cursor, batchSize)
                         /\ pc' = "rows"
                         /\ UNCHANGED ret
    /\ UNCHANGED <<dictionary, lastCall, prevDict, inputVars, regVars, fnCall, calls, errColumns,
                   table, txState, err, cancelled, orderedColumns, skipSet, idx,
                   cursorOpen, updates, first, queued, statsCols>>

\* the entries of an update map, as history
QueuedOf(upd) ==
    {[ctid |-> upd[k].ctid, value |-> upd[k].value] : k \in 1..Len(upd)}

\* generator.Generate for the rows of a batch, arity values for each row:
\* any value of GenVals, or what the script has for the row
Generate(rows, arity) ==
    IF script = <<>>
    THEN [1..Len(rows) -> [1..arity -> GenVals]]
    ELSE {[i \in 1..Len(rows) |-> [j \in 1..arity |-> script[rows[i].ctid]]]}

\* Process lines 112-164 (scalar) and 103-128 (JSON): the rows of the batch
\* go through the dictionary and the update map is built; none of the calls
\* takes the context
ProcessBatch ==
    /\ pc = "rows"
    /\ LET col == orderedColumns[idx]
           st0 == [d |-> dictionary, updates |-> <<>>, first |-> first,
                   err |-> "", values |-> 0]
           arity == IF IsJSONColumn(col) THEN MaxArr ELSE 1
           Processed(st) ==
               /\ dictionary' = st.d
               /\ first' = st.first
               /\ queued' = [queued EXCEPT ![col] = @ \cup QueuedOf(st.updates)]
               /\ IF st.err # ""
                  THEN /\ ret' = st.err
                       /\ pc' = "close"
                       /\ UNCHANGED <<batch, updates>>
                  ELSE IF Len(st.updates) = 0
                  THEN /\ pc' = "loop"
                       /\ batch' = <<>>
                       /\ UNCHANGED <<ret, updates>>
                  ELSE /\ pc' = "update"
                       /\ updates' = st.updates
                       /\ UNCHANGED <<ret, batch>>
       IN  \E gens \in Generate(batch, arity) :
               Processed(IF IsJSONColumn(col)
                         THEN ProcessJSONRows(st0, cacheSize, batch, gens)
                         ELSE ProcessRows(st0, cacheSize, batch,
                                          [i \in 1..Len(batch) |-> gens[i][1]],
                                          HasUniqueConstraint(col)))
    /\ UNCHANGED <<lastCall, prevDict, inputVars, regVars, fnCall, calls, errColumns, cancelled,
                   table, txState, err, log, cursor, cursorOpen,
                   orderedColumns, skipSet, idx, statsCols>>

\* Process lines 166-171 and BatchProcessor.UpdateBatch: one UPDATE for the
\* update map of the batch
UpdateBatch ==
    /\ pc = "update"
    /\ LET col == orderedColumns[idx]
           newRows == ApplyUpdates(table[col], updates)
       IN  \E dbOk \in Answers(cancelled) :
             /\ log' = log \o Sent(cancelled, "update", col)
             /\ IF ~dbOk \/ UniqueViolation(newRows, KeyIsColumn(col))
                THEN /\ ret' = "update"
                     /\ pc' = "close"
                     /\ UNCHANGED <<table, batch, updates>>
                ELSE /\ table' = [table EXCEPT ![col] = newRows]
                     /\ pc' = "loop"
                     /\ batch' = <<>>
                     /\ updates' = <<>>
                     /\ UNCHANGED ret
    /\ UNCHANGED <<dictionary, lastCall, prevDict, inputVars, regVars, fnCall, calls, errColumns,
                   txState, err, cancelled, orderedColumns, skipSet, idx, cursor,
                   cursorOpen, first, queued, statsCols>>

\* Process line 89 and Run lines 207-225: the deferred CloseCursor, then
\* Process returns to Run, which records the column or returns the error
DeferredClose ==
    /\ pc = "close"
    /\ LET col == orderedColumns[idx]
           Closed(c) ==
               IF ret = "eof"
               THEN /\ log' = log \o c.evs
                    /\ cursorOpen' = c.cursorOpen
                    /\ cursor' = <<>>
                    /\ batch' = <<>>
                    /\ ret' = ""
                    /\ statsCols' = Append(statsCols, col)
                    /\ idx' = idx + 1
                    /\ pc' = "column"
                    /\ UNCHANGED <<err, txState, table, updates, dictionary>>
               ELSE /\ ReturnError(ret, c.evs, c.cursorOpen)
                    /\ UNCHANGED <<idx, statsCols>>
       IN  \E closeOk \in BOOLEAN :
               Closed(CloseCursor(cursorOpen, cancelled, closeOk, col))
    /\ UNCHANGED <<lastCall, prevDict, inputVars, regVars, fnCall, calls, errColumns,
                   cancelled, orderedColumns, skipSet, first, queued>>

\* Commit placed inside the loop over the columns
CommitEarly ==
    /\ pc = "column"
    /\ \E dbOk \in Answers(cancelled) :
         IF dbOk
         THEN LET r == deferredRollback(TRUE, "Committed", table, pre)
              IN  /\ txState' = r.txState
                  /\ table' = r.table
                  /\ log' = log \o <<Ev("commit", "")>> \o r.log
                  /\ pc' = "done"
                  /\ ReturnClose
                  /\ UNCHANGED <<err, cursor, cursorOpen, batch, updates, ret>>
         ELSE IF cancelled
         THEN ReturnError("commit", <<>>, cursorOpen)
         ELSE LET r == deferredRollback(FALSE, "RolledBack", pre, pre)
              IN  /\ err' = "commit"
                  /\ txState' = r.txState
                  /\ table' = r.table
                  /\ log' = log \o <<Ev("commit", "")>> \o r.log
                  /\ pc' = "done"
                  /\ ReturnClose
                  /\ UNCHANGED <<cursor, cursorOpen, batch, updates, ret>>
    /\ UNCHANGED <<lastCall, prevDict, inputVars, regVars, fnCall, calls, errColumns,
                   cancelled, orderedColumns, skipSet, idx, first, queued, statsCols>>

\* lines 227-237: tx.Commit() returns the error of a done context without
\* sending COMMIT; a COMMIT that fails ends the transaction, rolled back
\* by the server, and the deferred Rollback has nothing to send
Commit ==
    /\ pc = "column"
    /\ idx > Len(orderedColumns)
    /\ \E dbOk \in Answers(cancelled) :
         IF dbOk
         THEN LET r == deferredRollback(TRUE, "Committed", table, pre)
              IN  /\ txState' = r.txState
                  /\ table' = r.table
                  /\ log' = log \o <<Ev("commit", "")>> \o r.log
                  /\ pc' = "done"
                  /\ ReturnClose
                  /\ UNCHANGED <<err, cursor, cursorOpen, batch, updates, ret>>
         ELSE IF cancelled
         THEN ReturnError("commit", <<>>, cursorOpen)
         ELSE LET r == deferredRollback(FALSE, "RolledBack", pre, pre)
              IN  /\ err' = "commit"
                  /\ txState' = r.txState
                  /\ table' = r.table
                  /\ log' = log \o <<Ev("commit", "")>> \o r.log
                  /\ pc' = "done"
                  /\ ReturnClose
                  /\ UNCHANGED <<cursor, cursorOpen, batch, updates, ret>>
    /\ UNCHANGED <<lastCall, prevDict, inputVars, regVars, fnCall, calls, errColumns,
                   cancelled, orderedColumns, skipSet, idx, first, queued, statsCols>>

\* the caller cancels the context of the run, at any time: also after the
\* last statement of Run, while it is returning, when nothing reads the
\* context any more
Cancel ==
    /\ ~cancelled
    /\ cancelled' = TRUE
    /\ UNCHANGED <<dictionary, lastCall, prevDict, inputVars, regVars, fnCall, calls, errColumns, table, pc,
                   txState, err, orderedColumns, skipSet, idx, cursor, cursorOpen, batch,
                   updates, ret, first, queued, statsCols, log>>

\* database/sql, Tx.awaitDone: when the context of BeginTx is done the
\* package rolls the transaction back on its own, whatever Run is doing
AwaitDone ==
    /\ cancelled
    /\ txState = "Active"
    /\ pc # "done"
    /\ txState' = "RolledBack"
    /\ table' = pre
    /\ log' = Append(log, Ev("rollback", ""))
    /\ UNCHANGED <<dictionary, lastCall, prevDict, inputVars, regVars, fnCall, calls, errColumns, pc,
                   cancelled, err, orderedColumns, skipSet, idx, cursor, cursorOpen, batch,
                   updates, ret, first, queued, statsCols>>

Next == Preflight \/ BeginTx \/ NextColumn \/ ProcessColumn \/ OpenCursor
        \/ CheckCancelled \/ LoopFetch \/ ProcessBatch \/ UpdateBatch
        \/ DeferredClose \/ Commit \/ Cancel \/ AwaitDone

\* the run state before Run is called, the anonymizer having made its
\* dictionary on the database file that holds the rows of file
RunStartOn(file) ==
    /\ dictionary = NewDictionary(file, TRUE).d
    /\ lastCall = NoCall
    /\ prevDict = FreshDictionary
    /\ table = pre
    /\ pc = "start"
    /\ txState = "None"
    /\ err = ""
    /\ errColumns = <<>>
    /\ cancelled = FALSE
    /\ orderedColumns = <<>>
    /\ skipSet = {}
    /\ idx = 0
    /\ cursor = <<>>
    /\ cursorOpen = FALSE
    /\ batch = <<>>
    /\ updates = <<>>
    /\ ret = ""
    /\ first = <<>>
    /\ queued = [c \in SeqToSet(columns) |-> {}]
    /\ statsCols = <<>>
    /\ log = <<>>
    /\ RegistryIdle
    /\ fnCall = NoFnCall
    /\ calls = <<>>

\* the run state before Run is called, in a process whose database file did
\* not exist
RunStart == RunStartOn(NoFile)

\* what the database file can hold when the anonymizer is made: nothing, or
\* a row left by an earlier process of the same id that did not reach Close
LeftoverFiles == {NoFile, [rows |-> [o \in {sA} |-> sX], rowids |-> <<sA>>]}

----------------------------------------------------------------------------
(* BatchProcessor.UpdateRow, which Process does not call *)

\* BatchProcessor.UpdateRow: UPDATE ... SET col = $1 WHERE ctid = $2::tid on
\* the transaction; with the context done the statement is not sent; a ctid
\* that names no row updates nothing and is no error
UpdateRow(ctxDone, dbOk, rows, ctid, newValue, col) ==
    LET newRows == IF ctid \in 1..Len(rows)
                   THEN [rows EXCEPT ![ctid] = Val(newValue)]
                   ELSE rows
    IN  IF ctxDone
        THEN [err |-> TRUE, evs |-> <<>>, rows |-> rows]
        ELSE IF ~dbOk \/ UniqueViolation(newRows, KeyIsColumn(col))
        THEN [err |-> TRUE, evs |-> <<Ev("update", col)>>, rows |-> rows]
        ELSE [err |-> FALSE, evs |-> <<Ev("update", col)>>, rows |-> newRows]

\* a caller other than Process updates one row of the column through a
\* BatchProcessor bound to the transaction
CallUpdateRow ==
    /\ pc = "column"
    /\ txState = "Active"
    /\ idx <= Len(orderedColumns)
    /\ Cardinality({k \in 1..Len(log) : log[k].op = "update"}) < MaxRowUpdates
    /\ LET col == orderedColumns[idx]
           Updated(ctid, newValue, r) ==
               /\ table' = [table EXCEPT ![col] = r.rows]
               /\ log' = log \o r.evs
               /\ fnCall' = [op |-> "UpdateRow", value |-> newValue,
                             suffix |-> ctid,
                             result |-> IF r.err THEN <<"error">> ELSE EmptyStr]
       IN  \E ctid \in 1..(MaxRows + 1), newValue \in GenVals,
              dbOk \in Answers(cancelled) :
               Updated(ctid, newValue,
                       UpdateRow(cancelled, dbOk, table[col], ctid, newValue, col))
    /\ UNCHANGED <<dictVars, regVars, calls, inputVars, pc, txState, err,
                   errColumns, cancelled, orderedColumns, skipSet, idx, cursor,
                   cursorOpen, batch, updates, ret, first, queued, statsCols>>

InitBatch ==
    /\ columns = <<"c1">>
    /\ cacheSize = 1
    /\ batchSize = 1
    /\ fks = <<>>
    /\ mapOrder = columns
    /\ unique \in {{}, {"c1"}}
    /\ enforced = unique
    /\ pre \in [SeqToSet(columns) -> UNION {[1..k -> {Null, Val(EmptyStr), Val(sA), Val(sX)}] : k \in 0..MaxRows}]
    /\ \A c \in enforced : ~HasDuplicates(pre[c])
    /\ catalog = AllCols
    /\ generators = AllGenerators
    /\ script = <<>>
    /\ RunStart

BatchNext == Preflight \/ BeginTx \/ CallUpdateRow \/ Cancel \/ AwaitDone

SpecBatch == InitBatch /\ [][BatchNext]_vars

----------------------------------------------------------------------------
(* The Dictionary driven through its API: any sequence of calls *)

\* Run is not called in this specification
RunIdle ==
    /\ columns = <<>>
    /\ fks = <<>>
    /\ mapOrder = <<>>
    /\ unique = {}
    /\ enforced = {}
    /\ batchSize = 1
    /\ pre = <<>>
    /\ catalog = {}
    /\ generators = {}
    /\ script = <<>>
    /\ table = <<>>
    /\ pc = "idle"
    /\ txState = "None"
    /\ err = ""
    /\ errColumns = <<>>
    /\ cancelled = FALSE
    /\ orderedColumns = <<>>
    /\ skipSet = {}
    /\ idx = 0
    /\ cursor = <<>>
    /\ cursorOpen = FALSE
    /\ batch = <<>>
    /\ updates = <<>>
    /\ ret = ""
    /\ first = <<>>
    /\ queued = <<>>
    /\ statsCols = <<>>
    /\ log = <<>>
    /\ RegistryIdle
    /\ fnCall = NoFnCall

DictInit ==
    /\ cacheSize \in 1..MaxCap
    /\ dictionary = FreshDictionary
    /\ lastCall = NoCall
    /\ prevDict = FreshDictionary
    /\ RunIdle
    /\ calls = <<>>

CallGet ==
    \E o \in Originals :
        LET r == Dictionary_Get(dictionary, cacheSize, o)
        IN  /\ dictionary' = r.d
            /\ prevDict' = dictionary
            /\ lastCall' = [op |-> "Get", original |-> o, anonymized |-> EmptyStr,
                            ok |-> r.ok, val |-> r.val, stored |-> lastCall.stored,
                            prev |-> Brief(lastCall)]
            /\ UNCHANGED <<cacheSize, runVars, regVars, fnCall, calls>>

CallSet ==
    \E o \in Originals, a \in GenVals :
        /\ dictionary' = Dictionary_Set(dictionary, cacheSize, o, a)
        /\ prevDict' = dictionary
        /\ lastCall' = [op |-> "Set", original |-> o, anonymized |-> a,
                        ok |-> TRUE, val |-> EmptyStr,
                        stored |-> StoredAfter(lastCall.stored, o, a,
                                             DiskUp(dictionary)),
                        prev |-> Brief(lastCall)]
        /\ UNCHANGED <<cacheSize, runVars, regVars, fnCall, calls>>

CallSetUnique ==
    \E o \in Originals, a \in GenVals :
        LET r == Dictionary_SetUnique(dictionary, cacheSize, o, a)
        IN  /\ dictionary' = r.d
            /\ prevDict' = dictionary
            /\ lastCall' = [op |-> "SetUnique", original |-> o, anonymized |-> a,
                            ok |-> r.ok, val |-> EmptyStr,
                            stored |-> StoredAfter(lastCall.stored, o, a,
                                                 r.ok /\ DiskUp(dictionary)),
                            prev |-> Brief(lastCall)]
            /\ UNCHANGED <<cacheSize, runVars, regVars, fnCall, calls>>

CallPreload ==
    \E v \in GenVals :
        /\ dictionary' = Dictionary_PreloadUsedValues(dictionary, {v})
        /\ prevDict' = dictionary
        /\ lastCall' = [op |-> "Preload", original |-> EmptyStr, anonymized |-> v,
                        ok |-> TRUE, val |-> EmptyStr, stored |-> lastCall.stored,
                        prev |-> Brief(lastCall)]
        /\ UNCHANGED <<cacheSize, runVars, regVars, fnCall, calls>>

CallIsUsed ==
    \E v \in GenVals :
        LET r == Dictionary_IsUsed(dictionary, v)
        IN  /\ dictionary' = r.d
            /\ prevDict' = dictionary
            /\ lastCall' = [op |-> "IsUsed", original |-> EmptyStr, anonymized |-> v,
                            ok |-> r.ok, val |-> EmptyStr, stored |-> lastCall.stored,
                            prev |-> Brief(lastCall)]
            /\ UNCHANGED <<cacheSize, runVars, regVars, fnCall, calls>>

\* Close: the rows of the file are gone with it
CallClose ==
    /\ dictionary' = Dictionary_Close(dictionary)
    /\ prevDict' = dictionary
    /\ lastCall' = [op |-> "Close", original |-> EmptyStr, anonymized |-> EmptyStr,
                    ok |-> TRUE, val |-> EmptyStr, stored |-> NoRows,
                    prev |-> Brief(lastCall)]
    /\ UNCHANGED <<cacheSize, runVars, regVars, fnCall, calls>>

\* NewDictionary called again in the same process: the new dictionary opens
\* the file the earlier one left, and is the one called from now on; when
\* it cannot be opened the caller has no new dictionary
CallNewDictionary ==
    \E openOk \in BOOLEAN :
        LET r == NewDictionary(FileOf(dictionary), openOk)
        IN  /\ dictionary' = IF r.err THEN dictionary ELSE r.d
            /\ prevDict' = dictionary
            /\ lastCall' = [op |-> "New", original |-> EmptyStr,
                            anonymized |-> EmptyStr, ok |-> ~r.err,
                            val |-> EmptyStr, stored |-> lastCall.stored,
                            prev |-> Brief(lastCall)]
            /\ UNCHANGED <<cacheSize, runVars, regVars, fnCall, calls>>

DictNext == CallGet \/ CallSet \/ CallSetUnique \/ CallPreload \/ CallIsUsed
            \/ CallClose \/ CallNewDictionary

SpecDict == DictInit /\ [][DictNext]_vars

----------------------------------------------------------------------------
(* The Dictionary called by concurrent callers *)

\* each caller makes up to MaxCalls calls, one after the other; a call is
\* at "start", holds the read lock ("rlocked"), has released it after a
\* miss ("missed"), holds the write lock ("locked") or is "done"
Callers == 1..MaxCallers

NewCalls ==
    {[op |-> "Get", original |-> o, anonymized |-> EmptyStr, at |-> "start",
      ok |-> FALSE, val |-> EmptyStr] : o \in Originals}
    \cup {[op |-> op, original |-> o, anonymized |-> a, at |-> "start",
           ok |-> FALSE, val |-> EmptyStr] :
              op \in {"Set", "SetUnique"}, o \in Originals, a \in GenVals}

\* the call a caller is in; at "done" when it is in none
Current(t) ==
    IF calls[t] = <<>>
    THEN [op |-> "none", original |-> EmptyStr, anonymized |-> EmptyStr,
          at |-> "done", ok |-> FALSE, val |-> EmptyStr]
    ELSE calls[t][Len(calls[t])]

SetCurrent(t, c) ==
    [calls EXCEPT ![t] = [@ EXCEPT ![Len(@)] = c]]

\* sync.RWMutex: the callers holding d.mu
Readers == {t \in Callers : Current(t).at = "rlocked"}

Writers == {t \in Callers : Current(t).at = "locked"}

ConcInit ==
    /\ cacheSize \in 1..MaxCap
    /\ dictionary = FreshDictionary
    /\ lastCall = NoCall
    /\ prevDict = FreshDictionary
    /\ RunIdle
    /\ calls = [t \in Callers |-> <<>>]

\* a caller enters Get, Set or SetUnique
StartCall ==
    \E t \in Callers, c \in NewCalls :
        /\ Current(t).at = "done"
        /\ Len(calls[t]) < MaxCalls
        /\ calls' = [calls EXCEPT ![t] = Append(@, c)]
        /\ UNCHANGED <<dictVars, runVars, regVars, fnCall>>

\* Get line 326: d.mu.RLock()
AcquireRead ==
    \E t \in Callers :
        /\ Current(t).op = "Get"
        /\ Current(t).at = "start"
        /\ Writers = {}
        /\ calls' = SetCurrent(t, [Current(t) EXCEPT !.at = "rlocked"])
        /\ UNCHANGED <<dictVars, runVars, regVars, fnCall>>

\* Get lines 327-332: the fast path under the read lock, then RUnlock
GetFast ==
    \E t \in Callers :
        /\ Current(t).at = "rlocked"
        /\ LET hit == LruGet(dictionary.cache, Current(t).original)
           IN  IF hit.ok
               THEN /\ dictionary' = [dictionary EXCEPT !.cache = hit.cache]
                    /\ calls' = SetCurrent(t, [Current(t) EXCEPT
                                     !.at = "done", !.ok = TRUE, !.val = hit.val])
               ELSE /\ calls' = SetCurrent(t, [Current(t) EXCEPT !.at = "missed"])
                    /\ UNCHANGED dictionary
        /\ UNCHANGED <<cacheSize, lastCall, prevDict, runVars, regVars, fnCall>>

\* d.mu.Lock() of Get (line 335), Set (line 365) and SetUnique (line 429)
AcquireWrite ==
    \E t \in Callers :
        /\ \/ Current(t).op \in {"Set", "SetUnique"} /\ Current(t).at = "start"
           \/ Current(t).op = "Get" /\ Current(t).at = "missed"
        /\ Writers = {}
        /\ Readers = {}
        /\ calls' = SetCurrent(t, [Current(t) EXCEPT !.at = "locked"])
        /\ UNCHANGED <<dictVars, runVars, regVars, fnCall>>

\* the body of a call under the write lock, then Unlock
LockedBody ==
    \E t \in Callers :
        /\ Current(t).at = "locked"
        /\ LET c == Current(t)
               Returned(r) ==
                   /\ dictionary' = r.d
                   /\ calls' = SetCurrent(t, [c EXCEPT !.at = "done",
                                                       !.ok = r.ok,
                                                       !.val = r.val])
           IN  CASE c.op = "Get" ->
                      Returned(Dictionary_Get(dictionary, cacheSize, c.original))
                 [] c.op = "Set" ->
                      Returned([ok |-> TRUE, val |-> EmptyStr,
                                d |-> Dictionary_Set(dictionary, cacheSize,
                                                     c.original, c.anonymized)])
                 [] OTHER ->
                      LET r == Dictionary_SetUnique(dictionary, cacheSize,
                                                    c.original, c.anonymized)
                      IN  Returned([ok |-> r.ok, val |-> EmptyStr, d |-> r.d])
        /\ UNCHANGED <<cacheSize, lastCall, prevDict, runVars, regVars, fnCall>>

ConcNext == StartCall \/ AcquireRead \/ GetFast \/ AcquireWrite \/ LockedBody

SpecConc == ConcInit /\ [][ConcNext]_vars

----------------------------------------------------------------------------
(* Claims about the Dictionary *)

MappedTo(d, o, a) == o \in DOMAIN d.disk /\ d.disk[o] = a

MappedByOther(d, o, a) == \E o2 \in (DOMAIN d.disk) \ {o} : d.disk[o2] = a

\* C10: put_unique(o, a) returns true iff a is not already taken by a
\* different original, in every Dictionary state and for every LRU capacity:
\* true when o is already mapped to a (and no other original is), false when
\* another original is mapped to a (and o is not), true when a is neither
\* mapped nor marked as used.
C10_PutUniqueIff ==
    lastCall.op = "SetUnique" =>
        LET o == lastCall.original
            a == lastCall.anonymized
            mine == MappedTo(prevDict, o, a)
            other == MappedByOther(prevDict, o, a)
        IN  /\ (mine /\ ~other) => lastCall.ok
            /\ (other /\ ~mine) => ~lastCall.ok
            /\ (~mine /\ ~other /\ a \notin prevDict.reverse) => lastCall.ok

\* the call made last repeats the call made just before it
Repeated == /\ lastCall.prev.op = lastCall.op
            /\ lastCall.prev.original = lastCall.original
            /\ lastCall.prev.anonymized = lastCall.anonymized

\* C11: Set(v, a) made again right after Set(v, a) leaves the Dictionary
\* exactly as the first call left it; SetUnique(v, a) made again right after
\* SetUnique(v, a) returns what the first call returned and leaves the
\* mappings and the reverse index as they were, so that an accepted call is
\* accepted both times and v is mapped to a (the mappings of a dictionary
\* that has been closed are gone with its file).
C11_WritesIdempotent ==
    /\ (lastCall.op = "Set" /\ Repeated) => dictionary = prevDict
    /\ (lastCall.op = "SetUnique" /\ Repeated /\ DiskUp(dictionary)) =>
           /\ lastCall.ok = lastCall.prev.ok
           /\ dictionary.disk = prevDict.disk
           /\ dictionary.reverse = prevDict.reverse
           /\ lastCall.ok => MappedTo(dictionary, lastCall.original,
                                      lastCall.anonymized)

\* SetUnique was accepted twice in a row for the same pair while another
\* original is mapped as well
C11_Witness ==
    /\ lastCall.op = "SetUnique"
    /\ Repeated
    /\ lastCall.ok /\ lastCall.prev.ok
    /\ MappedTo(dictionary, lastCall.original, lastCall.anonymized)
    /\ Cardinality(DOMAIN dictionary.disk) = 2

\* C24: whatever the LRU capacity and the calls made, every entry of the
\* LRU tier is in the disk tier with the same value, the disk tier holds
\* for each original the value most recently stored for it, a Get returns
\* that value also when the LRU tier no longer holds the original, and
\* after a Get that found the original the LRU tier holds it. The calls are
\* those made on a dictionary that has not been closed, also one opened on
\* the file an earlier dictionary of the process wrote.
C24_TwoTiersOneMap ==
    DiskUp(dictionary) =>
        /\ \A i \in 1..Len(dictionary.cache) :
               MappedTo(dictionary, dictionary.cache[i][1], dictionary.cache[i][2])
        /\ dictionary.disk = lastCall.stored
        /\ lastCall.op = "Get" =>
               /\ lastCall.ok = (lastCall.original \in DOMAIN lastCall.stored)
               /\ lastCall.ok =>
                      /\ lastCall.val = lastCall.stored[lastCall.original]
                      /\ IndexOfKey(dictionary.cache, lastCall.original) > 0
               /\ dictionary.disk = prevDict.disk

C24_Witness ==
    /\ lastCall.op = "Get"
    /\ lastCall.ok
    /\ IndexOfKey(prevDict.cache, lastCall.original) = 0
    /\ IndexOfKey(dictionary.cache, lastCall.original) = 1
    /\ lastCall.val = lastCall.stored[lastCall.original]
    /\ lastCall.prev.op = "Set"
    /\ lastCall.prev.original # lastCall.original

----------------------------------------------------------------------------
(* The inputs of a run *)

SeqsUpTo(S, n) == UNION {[1..k -> S] : k \in 0..n}

Perms(S) == {q \in [1..Cardinality(S) -> S] : \A i, j \in DOMAIN q : i # j => q[i] # q[j]}

ScalarVals == {Null, Val(EmptyStr), Val(sA), Val(sX)}

ScalarTables == SeqsUpTo(ScalarVals, MaxRows)

Elems == {[t |-> "missing", s |-> EmptyStr], [t |-> "null", s |-> EmptyStr],
          [t |-> "num", s |-> EmptyStr], StrElem(sA), StrElem(sX)}

Docs == {Doc(arr) : arr \in SeqsUpTo(Elems, MaxArr)}
        \cup {[kind |-> "invalid", arr |-> <<>>], [kind |-> "empty", arr |-> <<>>]}

FKs == {[parent |-> q, child |-> c, onUpdate |-> u] :
           q \in AllCols, c \in AllCols, u \in {"CASCADE", "NO ACTION"}}

\* the tables satisfy the unique constraints the catalog declares
ConstraintsHold(tables, uniq) ==
    \A c \in uniq : ~HasDuplicates(tables[c])

ColSet == SeqToSet(columns)

\* runs over scalar data: two scalar columns, the second one possibly unique
Init ==
    /\ columns = <<"c1", "c2">>
    /\ cacheSize \in 1..MaxCap
    /\ batchSize \in 1..MaxBatch
    /\ fks = <<>>
    /\ mapOrder \in Perms(ColSet)
    /\ unique \in {{}, {"c2"}}
    /\ enforced \in SUBSET unique
    /\ pre \in [ColSet -> ScalarTables]
    /\ ConstraintsHold(pre, enforced)
    /\ catalog = AllCols
    /\ generators = AllGenerators
    /\ script = <<>>
    /\ \E file \in LeftoverFiles : RunStartOn(file)

Spec == Init /\ [][Next]_vars

\* runs over a scalar column and a JSON column that share the Dictionary
JSONTables == SeqsUpTo({JNull} \cup {Val(doc) : doc \in Docs}, 1)

InitJSON ==
    /\ columns = <<"c1", "c3">>
    /\ cacheSize \in 1..MaxCap
    /\ batchSize = MaxBatch
    /\ fks = <<>>
    /\ mapOrder \in Perms(ColSet)
    /\ unique = {}
    /\ enforced = {}
    /\ pre \in {[c \in ColSet |-> IF c = "c1" THEN t1 ELSE t3] :
                   t1 \in SeqsUpTo(ScalarVals, 1), t3 \in JSONTables}
    /\ catalog = AllCols
    /\ generators = AllGenerators
    /\ script = <<>>
    /\ RunStart

SpecJSON == InitJSON /\ [][Next]_vars

\* runs over three columns of one row each, or two columns one of which is
\* configured twice, under every catalog of foreign keys and every iteration
\* order of the map
OrderTables ==
    [c \in {"c1", "c2", "c3"} |->
        CASE c = "c1" -> <<Val(sA)>>
          [] c = "c2" -> <<Val(sX)>>
          [] OTHER    -> <<Val(Doc(<<StrElem(sA)>>))>>]

InitOrder ==
    /\ columns \in {<<"c1", "c2", "c3">>, <<"c1", "c2", "c1">>}
    /\ cacheSize = MaxCap
    /\ batchSize = MaxBatch
    /\ fks \in SeqsUpTo(FKs, MaxFKs)
    /\ mapOrder \in Perms(ColSet)
    /\ unique = {}
    /\ enforced = {}
    /\ pre = [c \in ColSet |-> OrderTables[c]]
    /\ catalog = AllCols
    /\ generators = AllGenerators
    /\ script = <<>>
    /\ RunStart

SpecOrder == InitOrder /\ [][Next]_vars

\* runs under every catalog of at most MaxCascades ON UPDATE CASCADE keys
\* between the three configured columns, cycles included
CascadeFKs == {fk \in FKs : /\ fk.onUpdate = "CASCADE"
                            /\ fk.parent \in {"c1", "c2", "c3"}
                            /\ fk.child \in {"c1", "c2", "c3"}}

InitCycle ==
    /\ columns = <<"c1", "c2", "c3">>
    /\ cacheSize = MaxCap
    /\ batchSize = MaxBatch
    /\ fks \in SeqsUpTo(CascadeFKs, MaxCascades)
    /\ mapOrder \in Perms(ColSet)
    /\ unique = {}
    /\ enforced = {}
    /\ catalog = AllCols
    /\ generators = AllGenerators
    /\ script = <<>>
    /\ pre = OrderTables
    /\ RunStart

SpecCycle == InitCycle /\ [][Next]_vars

\* runs over one JSON column of up to MaxRows + 1 rows, some of which hold a
\* text that is not JSON
SkipTables ==
    SeqsUpTo({JNull, Val([kind |-> "invalid", arr |-> <<>>]),
              Val(Doc(<<StrElem(sA)>>)), Val(Doc(<<StrElem(sX)>>))}, MaxRows + 1)

InitSkip ==
    /\ columns = <<"c3">>
    /\ cacheSize = MaxCap
    /\ batchSize \in 1..MaxBatch
    /\ fks = <<>>
    /\ mapOrder = columns
    /\ unique = {}
    /\ enforced = {}
    /\ catalog = AllCols
    /\ generators = AllGenerators
    /\ script = <<>>
    /\ pre \in [ColSet -> SkipTables]
    /\ RunStart

SpecSkip == InitSkip /\ [][Next]_vars

\* runs over one unique-constrained column of up to MaxRows + 2 rows with
\* distinct values, the generator returning a scripted value for each row
\* so that generated values and suffixed candidates collide
ScriptVals == {sX, addUniqueSuffix(sX, 1), addUniqueSuffix(sX, 2)}

NumberedRows(n) == [i \in 1..n |-> Val(Itoa(i))]

InitRetry ==
    /\ columns = <<"c2">>
    /\ cacheSize \in 1..MaxCap
    /\ batchSize \in 1..MaxBatch
    /\ fks = <<>>
    /\ mapOrder = columns
    /\ unique = {"c2"}
    /\ enforced = {"c2"}
    /\ catalog = AllCols
    /\ generators = AllGenerators
    /\ \E n \in 1..(MaxRows + 2) :
           /\ pre = [c \in ColSet |-> NumberedRows(n)]
           /\ script \in [1..n -> ScriptVals]
    /\ RunStart

SpecRetry == InitRetry /\ [][Next]_vars

\* runs over one unique-constrained column in which the generated values of
\* the first rows are x, x1, ..., x100 and the generator then returns x or y
\* for the last row
ExhaustRows == maxCollisionRetries + 2

ExhaustScript(last) ==
    [i \in 1..ExhaustRows |->
        IF i = ExhaustRows THEN last
        ELSE IF i = 1 THEN sX ELSE addUniqueSuffix(sX, i - 1)]

InitExhaust ==
    /\ columns = <<"c2">>
    /\ cacheSize = MaxCap
    /\ batchSize \in 1..MaxBatch
    /\ fks = <<>>
    /\ mapOrder = columns
    /\ unique = {"c2"}
    /\ enforced = {"c2"}
    /\ catalog = AllCols
    /\ generators = AllGenerators
    /\ pre = [c \in ColSet |-> NumberedRows(ExhaustRows)]
    /\ script \in {ExhaustScript(sX), ExhaustScript(sY)}
    /\ RunStart

SpecExhaust == InitExhaust /\ [][Next]_vars

\* runs against every catalog: each configured column exists or not, and a
\* column that does not exist has no rows
InitCatalog ==
    /\ columns \in {<<"c1", "c2">>, <<"c2", "x", "c1">>}
    /\ cacheSize = MaxCap
    /\ batchSize \in 1..MaxBatch
    /\ fks = <<>>
    /\ mapOrder \in Perms(ColSet)
    /\ unique = {}
    /\ enforced = {}
    /\ catalog \in SUBSET ColSet
    /\ generators = AllGenerators
    /\ script = <<>>
    /\ pre \in [ColSet -> SeqsUpTo({Null, Val(sA)}, MaxRows)]
    /\ \A c \in ColSet \ catalog : pre[c] = <<>>
    /\ RunStart

SpecCatalog == InitCatalog /\ [][Next]_vars

\* runs with any set of registered generators, under every catalog of at
\* most one ON UPDATE CASCADE key between the configured columns
InitPattern ==
    /\ columns = <<"c1", "c2", "c3">>
    /\ cacheSize = MaxCap
    /\ batchSize = MaxBatch
    /\ fks \in SeqsUpTo(CascadeFKs, 1)
    /\ mapOrder \in Perms(ColSet)
    /\ unique = {}
    /\ enforced = {}
    /\ catalog = AllCols
    /\ generators \in SUBSET {PatternOf(c) : c \in ColSet}
    /\ script = <<>>
    /\ pre = OrderTables
    /\ RunStart

SpecPattern == InitPattern /\ [][Next]_vars

\* runs during which the database file of the dictionary may fail: one
\* scalar column of up to MaxRows + 1 rows
InitDisk ==
    /\ columns = <<"c1">>
    /\ cacheSize \in 1..MaxCap
    /\ batchSize \in 1..MaxBatch
    /\ fks = <<>>
    /\ mapOrder = columns
    /\ unique \in {{}, {"c1"}}
    /\ enforced = unique
    /\ catalog = AllCols
    /\ generators = AllGenerators
    /\ script = <<>>
    /\ pre \in [ColSet -> SeqsUpTo(ScalarVals, MaxRows + 1)]
    /\ ConstraintsHold(pre, enforced)
    /\ RunStart

\* the database file of the dictionary starts failing: after n more
\* statements every statement on diskDB returns an error
DiskFail ==
    /\ txState = "Active"
    /\ pc # "done"
    /\ dictionary.diskLeft = -1
    /\ \E n \in 0..MaxDiskOps :
         dictionary' = [dictionary EXCEPT !.diskLeft = n]
    /\ UNCHANGED <<cacheSize, lastCall, prevDict, runVars, regVars, fnCall, calls>>

NextDisk == Next \/ DiskFail

SpecDisk == InitDisk /\ [][NextDisk]_vars

----------------------------------------------------------------------------
(* Claims about a run *)

LogHas(op, col) == \E k \in 1..Len(log) : log[k] = Ev(op, col)

CommitIssued == LogHas("commit", "")

\* the first position of column c in the processing order, 0 when absent
Pos(c) ==
    IF \E k \in 1..Len(orderedColumns) : orderedColumns[k] = c
    THEN CHOOSE k \in 1..Len(orderedColumns) :
             /\ orderedColumns[k] = c
             /\ \A j \in 1..(k - 1) : orderedColumns[j] # c
    ELSE 0

\* the ON UPDATE CASCADE keys whose two ends are both configured
ConfiguredCascades ==
    {k \in 1..Len(fks) : /\ fks[k].onUpdate = "CASCADE"
                         /\ fks[k].parent \in ColSet
                         /\ fks[k].child \in ColSet}

\* C1: within one run, whatever the LRU capacity and the sequence of scalar
\* and JSON columns, the mapping of an original never changes once stored,
\* and every occurrence of an original string in a processed row is replaced
\* by the value stored on the first dictionary miss for that original.
C1_SameOriginalSameValue ==
    /\ pc # "done" =>
           \A o \in DOMAIN first :
               o \in DOMAIN dictionary.disk /\ dictionary.disk[o] = first[o]
    /\ \A c \in ColSet : \A u \in queued[c] :
           LET old == pre[c][u.ctid].val
           IN  IF IsJSONColumn(c)
               THEN \A j \in 1..Len(old.arr) :
                        old.arr[j].t = "str" =>
                            /\ old.arr[j].s \in DOMAIN first
                            /\ u.value.arr[j] = StrElem(first[old.arr[j].s])
               ELSE old \in DOMAIN first /\ u.value = first[old]
    /\ txState = "Committed" =>
           \A c \in ColSet : \A i \in 1..Len(pre[c]) :
               LET old == pre[c][i].val
               IN  IF IsJSONColumn(c)
                   THEN (~pre[c][i].null /\ old.kind = "json") =>
                            \A j \in 1..Len(old.arr) :
                                old.arr[j].t = "str" =>
                                    /\ old.arr[j].s \in DOMAIN first
                                    /\ table[c][i].val.arr[j]
                                           = StrElem(first[old.arr[j].s])
                   ELSE (~pre[c][i].null /\ old # EmptyStr) =>
                            /\ old \in DOMAIN first
                            /\ table[c][i] = Val(first[old])

\* C2: when Run returns an error after the transaction was begun, the
\* transaction is rolled back and every row of every configured column has
\* its pre-run value, also in the columns processed before the failure.
C2_FailureRollsBack ==
    (err # "" /\ txState # "None") =>
        /\ txState = "RolledBack"
        /\ \A c \in ColSet : table[c] = pre[c]

\* a fetch or update failed after another column had been updated and
\* finished, and the run ended with the tables as they were
C2_Witness ==
    /\ err \in {"fetch", "update"}
    /\ txState = "RolledBack"
    /\ \E c \in SeqToSet(statsCols) : LogHas("update", c)
    /\ table = pre

\* C3: after a committed run a scalar column with a unique constraint (a
\* column that is part of a key) that held no two equal non-null values
\* before the run holds none after it, and no value written into it equals
\* the value of a row of the column that the run left alone.
C3_UniqueAfterCommit ==
    txState = "Committed" =>
        \A c \in unique :
            ~HasDuplicates(pre[c]) =>
                /\ ~HasDuplicates(table[c])
                /\ \A u \in queued[c] : \A i \in 1..Len(pre[c]) :
                       (~pre[c][i].null /\ i \notin {q.ctid : q \in queued[c]}) =>
                           u.value # pre[c][i].val

\* C4: in a column with a unique constraint no two distinct originals are
\* given the same anonymized value, whichever column of the run stored the
\* originals' mappings.
C4_DistinctOriginalsDistinctValues ==
    \A c \in unique : \A u1, u2 \in queued[c] :
        pre[c][u1.ctid].val # pre[c][u2.ctid].val => u1.value # u2.value

\* C5: for every ON UPDATE CASCADE key with parent and child both configured
\* the parent stands before the child in the processing order, for every
\* iteration order of the map, and Run never stands at the child before it
\* has passed the parent.
C5_ParentBeforeChild ==
    orderedColumns # <<>> =>
        \A k \in ConfiguredCascades :
            /\ Pos(fks[k].parent) >= 1
            /\ Pos(fks[k].parent) < Pos(fks[k].child)
            /\ (idx \in 1..Len(orderedColumns)
                /\ orderedColumns[idx] = fks[k].child) => Pos(fks[k].parent) < idx

\* an order was computed for a chain of two configured cascade keys whose
\* last child the map iteration yields first
C5_Witness ==
    /\ orderedColumns # <<>>
    /\ \E k1, k2 \in ConfiguredCascades :
           /\ fks[k1].child = fks[k2].parent
           /\ fks[k1].parent # fks[k2].child
           /\ mapOrder[1] = fks[k2].child
    /\ pc = "done" /\ txState = "Committed"

\* C6: a configured column that is the child of an ON UPDATE CASCADE key
\* whose parent is configured is never dispatched: no cursor is declared on
\* it, nothing is fetched or updated for it, no update is queued for it and
\* no statistics entry is recorded for it.
C6_CascadeTargetSkipped ==
    \A k \in ConfiguredCascades :
        LET c == fks[k].child
        IN  /\ ~LogHas("declare", c)
            /\ ~LogHas("fetch", c)
            /\ ~LogHas("update", c)
            /\ queued[c] = {}
            /\ c \notin SeqToSet(statsCols)

\* a committed run in which the parent of a configured cascade key was
\* updated and the child, which has a row to anonymize, was passed over
C6_Witness ==
    /\ txState = "Committed"
    /\ \E k \in ConfiguredCascades :
           /\ fks[k].parent # fks[k].child
           /\ LogHas("update", fks[k].parent)
           /\ fks[k].child \in skipSet
           /\ \E i \in 1..Len(pre[fks[k].child]) : ~pre[fks[k].child][i].null

\* where Run is while Process runs on a column
InProcess == {"loop", "fetch", "rows", "update", "close"}

\* C7: a row whose column value is NULL is never returned by the cursor,
\* never part of a fetched batch and never in an update map, and it is still
\* NULL afterwards.
C7_NullUntouched ==
    /\ pc \in InProcess =>
           LET c == orderedColumns[idx]
           IN  /\ \A k \in 1..Len(cursor) : ~pre[c][cursor[k].ctid].null
               /\ \A k \in 1..Len(batch) : ~pre[c][batch[k].ctid].null
    /\ \A c \in ColSet : \A u \in queued[c] : ~pre[c][u.ctid].null
    /\ \A c \in ColSet : \A i \in 1..Len(pre[c]) :
           pre[c][i].null => table[c][i].null

\* a committed run over a column that holds a NULL row and a row that was
\* updated
C7_Witness ==
    /\ txState = "Committed"
    /\ \E c \in ColSet :
           /\ \E i \in 1..Len(pre[c]) : pre[c][i].null /\ table[c][i].null
           /\ \E i \in 1..Len(pre[c]) : ~pre[c][i].null /\ table[c][i] # pre[c][i]

\* C8: once the context is cancelled no fetch, update, declare, close or
\* commit is sent any more, only the rollback; the cancellation check at the
\* head of the current column's loop stops the processor, which returns the
\* cancellation as its error; no column is finished any more, unless its
\* last fetch had already come back empty; and a run that is cancelled
\* before its last statement ends rolled back, with every table as before
\* the run, and returns an error.
C8_CancelStops ==
    /\ [][cancelled =>
              /\ \A k \in (Len(log) + 1)..Len(log') : log'[k].op = "rollback"
              /\ statsCols' # statsCols => ret = "eof"
              /\ txState' # "Committed"]_vars
    /\ [][(pc = "loop" /\ cancelled /\ pc' # pc) =>
              (pc' = "close" /\ ret' = "cancelled")]_vars
    /\ [][(pc = "close" /\ ret = "cancelled" /\ pc' # pc) =>
              (/\ pc' = "done"
               /\ err' = "cancelled"
               /\ idx' = idx
               /\ statsCols' = statsCols)]_vars
    /\ [][(cancelled /\ pc # "done" /\ pc' = "done" /\ txState # "None") =>
              (txState' = "RolledBack" /\ table' = pre /\ err' # "")]_vars

\* the run was cancelled after a batch had been updated and before the last
\* column was reached, and ended rolled back
C8_Witness ==
    /\ pc = "done"
    /\ err = "cancelled"
    /\ cancelled
    /\ txState = "RolledBack"
    /\ \E c \in ColSet : LogHas("update", c)
    /\ idx < Len(orderedColumns)
    /\ ~CommitIssued

\* C9: a run that began the transaction has, when Run returns, ended
\* Committed or RolledBack and never both (a state once terminal stays); the
\* commit is issued only when every column of the processing order was
\* skipped as a cascade target or processed without error; after an error
\* nothing more is issued, and a committed run returned no error.
C9_TerminalStates ==
    /\ []((pc = "done" /\ txState # "None") =>
              txState \in {"Committed", "RolledBack"})
    /\ [](CommitIssued =>
              /\ idx > Len(orderedColumns)
              /\ \A k \in 1..Len(orderedColumns) :
                     \/ orderedColumns[k] \in skipSet
                     \/ orderedColumns[k] \in SeqToSet(statsCols)
              /\ err \in {"", "commit"})
    /\ [](txState = "Committed" => (err = "" /\ CommitIssued))
    /\ [][(txState \in {"Committed", "RolledBack"}) => (txState' = txState)]_vars
    /\ [][err # "" => (log' = log /\ txState' = txState /\ err' = err)]_vars

\* a committed run in which both columns were updated
C9_Witness ==
    /\ pc = "done"
    /\ txState = "Committed"
    /\ Len(statsCols) = 2
    /\ \A c \in ColSet : LogHas("update", c)

\* the non-null values column c held when the run started
DistinctValues(c) == {pre[c][i].val : i \in {j \in 1..Len(pre[c]) : ~pre[c][j].null}}

\* C12: once the transaction has begun, every distinct non-null value stored
\* in a configured unique-constrained column when the run started is marked
\* as taken in the Dictionary's reverse index.
C12_PreloadedBeforeBegin ==
    txState # "None" =>
        \A c \in ColSet \cap unique : DistinctValues(c) \subseteq dictionary.reverse

\* the configured columns the database does not hold
Absent == ColSet \ catalog

\* C13: when a configured column is absent from the catalog, Run gets no
\* further than validation: it fails, with a ValidationError whenever the
\* catalog query itself succeeded; the error lists exactly the absent
\* configured columns, no transaction is begun and no row is modified.
C13_MissingColumnsFail ==
    /\ (Absent # {} /\ pc # "start") =>
           /\ pc = "done"
           /\ err \in {"validation", "catalog"}
           /\ txState = "None"
           /\ log = <<>>
           /\ table = pre
    /\ err = "validation" =>
           /\ Absent # {}
           /\ SeqToSet(errColumns) = Absent
           /\ txState = "None"
           /\ table = pre

C13_Witness ==
    /\ err = "validation"
    /\ pc = "done"
    /\ errColumns = <<"x", "c1">>
    /\ Len(pre["c2"]) = MaxRows

\* the parents, by a configured CASCADE key, of the columns in S
Parents(S) == {fks[k].parent : k \in {j \in ConfiguredCascades : fks[j].child \in S}}

RECURSIVE Ancestors(_, _)
\* S and what is reached from it along at most n CASCADE keys, child to parent
Ancestors(S, n) == IF n = 0 THEN S ELSE Ancestors(S \cup Parents(S), n - 1)

\* the CASCADE keys between configured columns contain a cycle
CascadeCycle ==
    \E c \in ColSet : c \in Ancestors(Parents({c}), Cardinality(ColSet))

\* C14: when the ON UPDATE CASCADE keys between configured columns contain
\* a cycle, GetProcessingOrder returns an error and no order whatever the
\* iteration order of its map, Run fails before it begins the transaction,
\* and no row is updated.
C14_CycleFails ==
    CascadeCycle =>
        /\ \A iter \in Perms(ColSet) :
               LET ord == GetProcessingOrder(fks, columns, iter)
               IN  ord.err # "" /\ ord.order = <<>>
        /\ pc # "start" =>
               /\ pc = "done"
               /\ err \in {"ordering", "catalog"}
               /\ orderedColumns = <<>>
               /\ txState = "None"
               /\ log = <<>>
               /\ table = pre

C14_Witness ==
    /\ fks = <<[parent |-> "c1", child |-> "c2", onUpdate |-> "CASCADE"],
               [parent |-> "c2", child |-> "c3", onUpdate |-> "CASCADE"],
               [parent |-> "c3", child |-> "c1", onUpdate |-> "CASCADE"]>>
    /\ CascadeCycle
    /\ pc = "done"
    /\ err = "ordering"
    /\ txState = "None"

\* neither column is reached from the other along configured CASCADE keys
Unordered(a, b) ==
    /\ a \notin Ancestors(Parents({b}), Cardinality(ColSet))
    /\ b \notin Ancestors(Parents({a}), Cardinality(ColSet))

\* C15: GetProcessingOrder returns the same result for the same columns and
\* foreign keys whatever the iteration order of its map, and in the order a
\* run uses two columns that no CASCADE dependency orders stand as they do
\* in the configuration.
C15_OrderDeterministic ==
    /\ \A i1, i2 \in Perms(ColSet) :
           GetProcessingOrder(fks, columns, i1) = GetProcessingOrder(fks, columns, i2)
    /\ orderedColumns # <<>> =>
           \A i, j \in 1..Len(columns) :
               (i < j /\ Unordered(columns[i], columns[j])) =>
                   Pos(columns[i]) < Pos(columns[j])

\* the positions of arr that a parsed path selects
Selected(arr, path) ==
    {j \in 1..Len(arr) : PathSelector(path) = -1 \/ PathSelector(path) = j - 1}

\* the position in arr of its k-th string value
StrPosition(arr, k) ==
    CHOOSE j \in 1..Len(arr) :
        /\ arr[j].t = "str"
        /\ Cardinality({i \in 1..j : arr[i].t = "str"}) = k

\* C16: for every JSON row that got an update, each match Extract returned
\* for the original document carries a concrete path that selects exactly
\* the array position holding that match's value, and the updated document
\* holds, at each position where the original held a string, the
\* Dictionary's value for that string.
C16_MatchReplacedAtPosition ==
    \A c \in {q \in ColSet : IsJSONColumn(q)} : \A u \in queued[c] :
        LET old == pre[c][u.ctid].val
            matches == Extract(old, PathExpr).matches
        IN  /\ \A k \in 1..Len(matches) :
                   /\ Selected(old.arr, matches[k].path) = {StrPosition(old.arr, k)}
                   /\ old.arr[StrPosition(old.arr, k)].s = matches[k].value
            /\ pc # "done" =>
                   \A j \in 1..Len(old.arr) :
                       old.arr[j].t = "str" =>
                           /\ old.arr[j].s \in DOMAIN dictionary.disk
                           /\ u.value.arr[j] = StrElem(dictionary.disk[old.arr[j].s])

\* C17: the document Replace returned for a JSON row has the array length
\* of the original, every element that held no string (field absent, null
\* or a number) is as it was, and every element that held a string holds a
\* string: no key is created and no non-string value is changed.
C17_ReplaceKeepsStructure ==
    \A c \in {q \in ColSet : IsJSONColumn(q)} : \A u \in queued[c] :
        LET old == pre[c][u.ctid].val
        IN  /\ u.value.kind = "json"
            /\ Len(u.value.arr) = Len(old.arr)
            /\ \A j \in 1..Len(old.arr) :
                   IF old.arr[j].t = "str"
                   THEN u.value.arr[j].t = "str"
                   ELSE u.value.arr[j] = old.arr[j]

\* the rows of column c the processor has fetched and gone through: all of
\* them when the column is finished, those the cursor no longer holds while
\* the column is between two batches
GoneThrough(c) ==
    IF \E k \in 1..Len(statsCols) : statsCols[k] = c
    THEN 1..Len(pre[c])
    ELSE IF pc = "loop" /\ orderedColumns[idx] = c
    THEN {i \in 1..Len(pre[c]) : ~pre[c][i].null}
         \ {cursor[k].ctid : k \in 1..Len(cursor)}
    ELSE {}

\* the row holds a JSON document with a string at the configured path
HasMatch(row) ==
    /\ ~row.null
    /\ row.val.kind = "json"
    /\ \E j \in 1..Len(row.val.arr) : row.val.arr[j].t = "str"

\* C18: a row of a JSON column whose text is not valid JSON gets no update
\* and keeps its value; its failure is never the error of the run; and as
\* long as the run has not failed or been rolled back, every row with a
\* match that the
\* processor has gone through, in the batch of the invalid row or a later
\* one, has its update queued and applied.
C18_InvalidJSONSkipped ==
    \A c \in {q \in ColSet : IsJSONColumn(q)} :
        /\ \A i \in 1..Len(pre[c]) :
               (~pre[c][i].null /\ pre[c][i].val.kind = "invalid") =>
                   /\ \A u \in queued[c] : u.ctid # i
                   /\ table[c][i] = pre[c][i]
        /\ err \notin {"invalid JSON"}
        /\ (err = "" /\ txState # "RolledBack") =>
               \A i \in GoneThrough(c) :
                   HasMatch(pre[c][i]) =>
                       \E u \in queued[c] :
                           u.ctid = i /\ table[c][i] = Val(u.value)

C18_Witness ==
    /\ txState = "Committed"
    /\ batchSize = 2
    /\ Len(pre["c3"]) = 3
    /\ pre["c3"][1] = Val([kind |-> "invalid", arr |-> <<>>])
    /\ HasMatch(pre["c3"][2]) /\ HasMatch(pre["c3"][3])
    /\ table["c3"][1] = pre["c3"][1]
    /\ table["c3"][2] # pre["c3"][2]
    /\ table["c3"][3] # pre["c3"][3]
    /\ {u.ctid : u \in queued["c3"]} = {2, 3}

----------------------------------------------------------------------------
(* The Registry and the Loader driven through their API: any sequence of *)
(* calls                                                                  *)

\* pattern names: one letter, the first in either case
PatternNames == {<<"a">>, <<"A">>, <<"b">>}

\* the patterns a file can hold: with or without a name, generator-backed,
\* format-backed, or with neither field
FilePatterns ==
    {[name |-> n, replacement |-> rf[1], format |-> rf[2]] :
        n \in PatternNames \cup {EmptyStr},
        rf \in {<<"D", "">>, <<"", "m">>, <<"", "">>}}

\* the patterns Add is called with
Patterns == {q \in FilePatterns : q.name # EmptyStr}

\* the user pattern files
PatternFiles == SeqsUpTo(FilePatterns, MaxFile)

\* the default pattern files
DefaultFiles ==
    SeqsUpTo({[name |-> <<"a">>, replacement |-> "D", format |-> ""],
              [name |-> <<"b">>, replacement |-> "", format |-> "m"]}, MaxFile)

RegistryInit ==
    /\ cacheSize = 1
    /\ dictionary = FreshDictionary
    /\ lastCall = NoCall
    /\ prevDict = FreshDictionary
    /\ RunIdle
    /\ calls = <<>>

CallAdd ==
    /\ pc = "idle"
    /\ \E q \in Patterns :
         LET Added(a) ==
                 /\ registry' = a.patterns
                 /\ lastReg' = [NoRegCall EXCEPT !.op = "Add", !.pattern = q,
                                                 !.err = a.err]
         IN  Added(Registry_Add(registry, q))
    /\ prevRegistry' = registry
    /\ UNCHANGED <<dictVars, runVars, fnCall, calls>>

CallRegistryGet ==
    /\ pc = "idle"
    /\ \E n \in PatternNames :
         LET Got(g) ==
                 lastReg' = [NoRegCall EXCEPT !.op = "Get", !.name = n,
                                              !.ok = g.ok, !.got = g.pattern]
         IN  Got(Registry_Get(registry, n))
    /\ prevRegistry' = registry
    /\ UNCHANGED <<registry, dictVars, runVars, fnCall, calls>>

CallLoad ==
    /\ pc = "idle"
    /\ \E file \in DefaultFiles, readOk \in BOOLEAN :
         LET Loaded(a) ==
                 /\ registry' = a.patterns
                 /\ lastReg' = [NoRegCall EXCEPT !.op = "Load", !.file = file,
                                                 !.readOk = readOk, !.err = a.err]
         IN  Loaded(LoadToRegistry(registry, file, readOk))
    /\ prevRegistry' = registry
    /\ UNCHANGED <<dictVars, runVars, fnCall, calls>>

CallMerge ==
    /\ pc = "idle"
    /\ \E file \in PatternFiles, readOk \in BOOLEAN :
         LET Merged(a) ==
                 /\ registry' = a.patterns
                 /\ lastReg' = [NoRegCall EXCEPT !.op = "Merge", !.file = file,
                                                 !.readOk = readOk, !.err = a.err]
         IN  Merged(MergeToRegistry(registry, file, readOk))
    /\ prevRegistry' = registry
    /\ UNCHANGED <<dictVars, runVars, fnCall, calls>>

RegistryNext == CallAdd \/ CallRegistryGet \/ CallLoad \/ CallMerge

SpecRegistry == RegistryInit /\ [][RegistryNext]_vars

\* two names are equal ignoring letter case
EqualFold(n1, n2) ==
    /\ Len(n1) = Len(n2)
    /\ \A i \in 1..Len(n1) :
           \/ n1[i] = n2[i]
           \/ {n1[i], n2[i]} \in {{"a", "A"}, {"b", "B"}}

\* the patterns a registry holds
Registered(r) == {r[k] : k \in DOMAIN r}

\* C19: a merge of a readable, valid file in which a name collides,
\* ignoring letter case, with a pattern of the registry returns the
\* conflict error, and whenever MergeToRegistry returns an error the
\* registry is as it was before the call.
C19_MergeAllOrNothing ==
    lastReg.op = "Merge" =>
        /\ (/\ LoadFile(lastReg.file, lastReg.readOk).err = ""
            /\ \E k \in 1..Len(lastReg.file) : \E q \in Registered(prevRegistry) :
                   EqualFold(lastReg.file[k].name, q.name))
               => lastReg.err = "conflict"
        /\ lastReg.err # "" => registry = prevRegistry

\* C20: an Add of a name that equals, ignoring letter case, the name of a
\* registered pattern returns an error and leaves the registry as it was;
\* any other Add registers the pattern; Get finds a registered pattern
\* under its name in any letter case, and finds nothing for a name that
\* equals no registered name.
C20_KeysCaseInsensitive ==
    /\ lastReg.op = "Add" =>
           IF \E q \in Registered(prevRegistry) : EqualFold(q.name, lastReg.pattern.name)
           THEN /\ lastReg.err # ""
                /\ registry = prevRegistry
                /\ Registry_Count(registry) = Registry_Count(prevRegistry)
           ELSE /\ lastReg.err = ""
                /\ Registered(registry) = Registered(prevRegistry) \cup {lastReg.pattern}
                /\ Registry_Count(registry) = Registry_Count(prevRegistry) + 1
    /\ lastReg.op = "Get" =>
           /\ registry = prevRegistry
           /\ IF \E q \in Registered(registry) : EqualFold(q.name, lastReg.name)
              THEN /\ lastReg.ok
                   /\ lastReg.got \in Registered(registry)
                   /\ EqualFold(lastReg.got.name, lastReg.name)
              ELSE ~lastReg.ok
    /\ \A q \in Registered(registry) : \A n \in PatternNames :
           EqualFold(n, q.name) => Registry_Get(registry, n) = [pattern |-> q, ok |-> TRUE]

C20_Witness ==
    /\ lastReg.op = "Add"
    /\ lastReg.pattern.name = <<"A">>
    /\ lastReg.err # ""
    /\ Registry_Count(registry) = 2
    /\ Registry_Get(registry, <<"A">>).ok
    /\ Registry_Get(registry, <<"A">>).pattern.name = <<"a">>
    /\ Registry_Get(registry, <<"A">>).pattern.replacement # lastReg.pattern.replacement

----------------------------------------------------------------------------
(* Claims about the retry loop *)

\* the values stored for the rows of column c before the row of ctid i
TakenBefore(c, i) == {u.value : u \in {q \in queued[c] : q.ctid < i}}

\* the k-th candidate for a generated value: the value itself for k = 0
Candidate(generated, k) ==
    IF k = 0 THEN generated ELSE addUniqueSuffix(generated, k)

\* the least k whose candidate is not in the set taken
LeastFree(generated, taken) ==
    CHOOSE k \in 0..maxCollisionRetries :
        /\ Candidate(generated, k) \notin taken
        /\ \A j \in 0..(k - 1) : Candidate(generated, j) \in taken

\* C21: in a unique-constrained column whose rows hold distinct values, the
\* value queued for a row and stored for its original is the generated
\* value when no earlier row took it, and otherwise the generated value
\* with the least suffix k in 1..100 that no earlier row took; every
\* candidate derives from the generated value itself.
C21_LeastSuffixStored ==
    script # <<>> =>
        \A c \in ColSet \cap unique : \A u \in queued[c] :
            LET generated == script[u.ctid]
                taken == TakenBefore(c, u.ctid)
            IN  /\ u.value = Candidate(generated, LeastFree(generated, taken))
                /\ first[pre[c][u.ctid].val] = u.value
                /\ pc # "done" => dictionary.disk[pre[c][u.ctid].val] = u.value

C21_Witness ==
    /\ txState = "Committed"
    /\ script = <<addUniqueSuffix(sX, 1), sX, sX>>
    /\ table["c2"] = <<Val(addUniqueSuffix(sX, 1)), Val(sX),
                       Val(addUniqueSuffix(sX, 2))>>

\* the number of statements op in the log
CountLog(op) == Cardinality({k \in 1..Len(log) : log[k].op = op})

\* the generated value of the last row and its 100 suffixed candidates are
\* all generated for earlier rows
AllCandidatesTaken ==
    /\ script # <<>>
    /\ \A k \in 0..maxCollisionRetries :
           \E i \in 1..(Len(script) - 1) :
               script[i] = Candidate(script[Len(script)], k)

\* C22: when the generated value and its 100 suffixed candidates are all
\* taken, the row gets no mapping and no update, the batch it is in is not
\* sent to the database, Process ends with the retry error and the run is
\* rolled back, never committed.
C22_ExhaustionFatal ==
    /\ AllCandidatesTaken =>
           \A c \in ColSet :
               LET last == Len(pre[c])
               IN  /\ pre[c][last].val \notin DOMAIN dictionary.disk
                   /\ pre[c][last].val \notin DOMAIN first
                   /\ \A u \in queued[c] : u.ctid # last
                   /\ txState # "Committed"
                   /\ (pc = "done" /\ err \notin {"catalog", "begin", "cursor_open",
                                                   "fetch", "update", "cancelled"})
                          => err = "retry"
    /\ err = "retry" =>
           /\ AllCandidatesTaken
           /\ txState = "RolledBack"
           /\ table = pre
           /\ CountLog("update") = (ExhaustRows - 1) \div batchSize
           /\ log[Len(log)] = Ev("rollback", "")

C22_Witness ==
    /\ err = "retry"
    /\ pc = "done"
    /\ txState = "RolledBack"
    /\ batchSize = MaxBatch
    /\ Cardinality(DOMAIN first) = ExhaustRows - 1

----------------------------------------------------------------------------
(* addUniqueSuffix called on its own *)

\* strings of letters, dots and at signs
SuffixInputs == SeqsUpTo({"x", ".", "@"}, MaxLen)

SuffixInit ==
    /\ cacheSize = 1
    /\ dictionary = FreshDictionary
    /\ lastCall = NoCall
    /\ prevDict = FreshDictionary
    /\ RunIdle
    /\ calls = <<>>

CallAddUniqueSuffix ==
    /\ pc = "idle"
    /\ \E value \in SuffixInputs, suffix \in 1..MaxSuffix :
         fnCall' = [op |-> "addUniqueSuffix", value |-> value, suffix |-> suffix,
                    result |-> addUniqueSuffix(value, suffix)]
    /\ UNCHANGED <<dictVars, runVars, regVars, calls>>

SpecSuffix == SuffixInit /\ [][CallAddUniqueSuffix]_vars

\* C23: the result of addUniqueSuffix is the value with the decimal digits
\* of the suffix inserted immediately before its last '@' when it has one,
\* also when that '@' is its first character, and the value followed by
\* the digits otherwise.
C23_SuffixBeforeLastAt ==
    fnCall.op = "addUniqueSuffix" =>
        LET value == fnCall.value
            ats == {i \in 1..Len(value) : value[i] = "@"}
        IN  IF ats # {}
            THEN LET last == CHOOSE i \in ats : \A j \in ats : j <= i
                 IN  fnCall.result = SubSeq(value, 1, last - 1)
                                     \o Itoa(fnCall.suffix)
                                     \o SubSeq(value, last, Len(value))
            ELSE fnCall.result = value \o Itoa(fnCall.suffix)

----------------------------------------------------------------------------
(* The cursor of a column *)

\* every FETCH of the log follows a DECLARE of its column with no CLOSE of
\* that column in between
FetchWhileOpen ==
    \A k \in 1..Len(log) :
        log[k].op = "fetch" =>
            \E j \in 1..(k - 1) :
                /\ log[j] = Ev("declare", log[k].col)
                /\ \A i \in (j + 1)..(k - 1) : log[i] # Ev("close", log[k].col)

\* Process is not running: between two columns or after the run
ProcessReturned == pc \in {"column", "done"}

\* no cursor is left open once Process has returned
ClosedOnExit == ProcessReturned => ~cursorOpen

\* C25: the cursor of a column is declared before its first fetch, every
\* fetch is issued while the cursor is open, and whenever Process has
\* returned, on whichever exit path, the cursor has been closed.
C25_CursorLifecycle ==
    /\ FetchWhileOpen
    /\ ClosedOnExit

----------------------------------------------------------------------------
(* Pattern names without a generator *)

\* the configured columns whose pattern name has no registered generator
UnknownPattern == {c \in ColSet : ~Manager_Get(generators, PatternOf(c))}

\* C26: when a configured column, whatever its position in the order and
\* also when it is a cascade target, names a pattern without a registered
\* generator, the run fails in preflight: no transaction is begun, no
\* statement is sent, and the run ends with an error.
C26_UnknownPatternInPreflight ==
    UnknownPattern # {} =>
        /\ txState = "None"
        /\ log = <<>>
        /\ pc = "done" => err # ""

----------------------------------------------------------------------------
(* Failures of the disk tier *)

\* the originals held by the LRU tier
CacheKeys(d) == {d.cache[i][1] : i \in 1..Len(d.cache)}

\* the batch has a non-empty value that the LRU tier does not hold: its
\* lookup queries the disk tier
DiskNeeded ==
    \E i \in 1..Len(batch) :
        /\ batch[i].value # EmptyStr
        /\ batch[i].value \notin CacheKeys(dictionary)

\* C27: a failure of the disk tier during column processing is fatal: when
\* the rows of a batch need the disk tier and the disk tier has failed,
\* Process stops with an error instead of going on to the update or to the
\* next fetch (the failed read is not answered as a miss, the failed write
\* is not dropped).
C27_DiskFailureFatal ==
    [][(pc = "rows" /\ ~DiskUp(dictionary) /\ DiskNeeded /\ pc' # pc) =>
           (pc' = "close" /\ ret' \notin {"", "eof"})]_vars

----------------------------------------------------------------------------
(* Concurrent callers *)

\* the calls that have returned, of every caller
ReturnedCalls ==
    {c \in UNION {SeqToSet(calls[t]) : t \in Callers} : c.at = "done"}

\* the calls entered so far, returned or not
EnteredCalls == UNION {SeqToSet(calls[t]) : t \in Callers}

\* no two SetUnique calls for the same value and different originals have
\* both returned true
NeverBothTrue ==
    \A c1, c2 \in ReturnedCalls :
        (/\ c1.op = "SetUnique" /\ c2.op = "SetUnique"
         /\ c1.anonymized = c2.anonymized
         /\ c1.original # c2.original) => ~(c1.ok /\ c2.ok)

\* a Get that found a value returned one that a Set or SetUnique call for
\* its own original stores or stored
GetReturnsOwnValue ==
    \A g \in ReturnedCalls :
        (g.op = "Get" /\ g.ok) =>
            \E c \in EnteredCalls : /\ c.op \in {"Set", "SetUnique"}
                                    /\ c.original = g.original
                                    /\ c.anonymized = g.val

\* C28: under any interleaving of concurrent callers, SetUnique(o1, a) and
\* SetUnique(o2, a) with o1 # o2 never both return true, and a Get(o)
\* returns not-found or a value stored for o, never the value of another
\* original.
C28_ConcurrentCallers ==
    /\ NeverBothTrue
    /\ GetReturnsOwnValue

----------------------------------------------------------------------------
(* The fetch loop of Process *)

\* the ctids of the rows of column c that are not NULL, and of those whose
\* text is not empty, before the run
NonNullCtids(c) == {i \in 1..Len(pre[c]) : ~pre[c][i].null}

NonEmptyCtids(c) == {i \in NonNullCtids(c) : pre[c][i].val # EmptyStr}

CtidsOf(rows) == {rows[k].ctid : k \in 1..Len(rows)}

QueuedCtids(c) == {u.ctid : u \in queued[c]}

CountEv(op, c) == Cardinality({k \in 1..Len(log) : log[k] = Ev(op, c)})

\* the batches into which n rows are fetched, b rows at a time
Batches(n, b) == (n \div b) + (IF n % b # 0 THEN 1 ELSE 0)

\* the batches of column c that hold a row with non-empty text
UpdatedBatches(c) ==
    LET rows == CursorRows(pre[c])
    IN  {k \in 1..Batches(Len(rows), batchSize) :
            \E i \in ((k - 1) * batchSize + 1)..(k * batchSize) :
                i <= Len(rows) /\ rows[i].value # EmptyStr}

\* Process has returned without error for column c
Finished(c) == c \in SeqToSet(statsCols)

\* where Run is while the loop of Process runs
InLoop == {"loop", "fetch", "rows", "update"}

\* what bounds the rest of the loop: the rows the cursor has still to
\* return, and how far the batch in hand has come
Measure ==
    4 * Len(cursor) + (CASE pc = "rows"   -> 3
                         [] pc = "update" -> 2
                         [] pc = "loop"   -> 1
                         [] OTHER         -> 0)

\* the rows of the column are in the cursor, in the batch in hand, or
\* behind: a row is never in two of these, and the rows with non-empty
\* text that are behind have been queued once
RowsOnce ==
    /\ pc \in {"loop", "fetch"} => (batch = <<>> /\ updates = <<>>)
    /\ pc \in InLoop =>
          LET c == orderedColumns[idx]
              inHand == IF pc = "update" THEN {} ELSE CtidsOf(batch)
          IN  /\ CtidsOf(cursor) \cap CtidsOf(batch) = {}
              /\ CtidsOf(cursor) \cap QueuedCtids(c) = {}
              /\ inHand \cap QueuedCtids(c) = {}
              /\ Cardinality(CtidsOf(cursor)) = Len(cursor)
              /\ Cardinality(CtidsOf(batch)) = Len(batch)
              /\ CtidsOf(cursor) \cup CtidsOf(batch) \cup QueuedCtids(c)
                   \subseteq NonNullCtids(c)
              /\ NonEmptyCtids(c)
                   \subseteq CtidsOf(cursor) \cup inHand \cup QueuedCtids(c)
    /\ \A c \in ColSet :
          Finished(c) =>
              /\ CountEv("fetch", c)
                   = Batches(Cardinality(NonNullCtids(c)), batchSize) + 1
              /\ CountEv("update", c) = Cardinality(UpdatedBatches(c))
              /\ QueuedCtids(c) = NonEmptyCtids(c)
              /\ Cardinality(queued[c]) = Cardinality(NonEmptyCtids(c))

\* a step of the loop: the rows of the batch in hand with non-empty text
\* are queued, each once and the others not at all, and the batch is
\* updated before the next fetch; the column ends on a zero-length fetch
\* and on nothing else; every step brings the end nearer
LoopStep ==
    /\ (pc = "rows" /\ pc' \in {"update", "loop"}) =>
          LET c == orderedColumns[idx]
              ne == {k \in 1..Len(batch) : batch[k].value # EmptyStr}
              new == queued'[c] \ queued[c]
          IN  /\ {u.ctid : u \in new} = {batch[k].ctid : k \in ne}
              /\ Cardinality(new) = Cardinality(ne)
              /\ QueuedOf(updates') = new
              /\ Len(updates') = Cardinality(ne)
              /\ (pc' = "loop") = (ne = {})
              /\ log' = log /\ table' = table
    /\ (pc = "update" /\ pc' = "loop") =>
          LET c == orderedColumns[idx]
              new == QueuedOf(updates)
          IN  /\ \A u \in new : table'[c][u.ctid] = Val(u.value)
              /\ \A i \in 1..Len(table[c]) :
                     i \notin {u.ctid : u \in new} => table'[c][i] = table[c][i]
              /\ log' = Append(log, Ev("update", c))
    /\ (pc' = "fetch" /\ pc # "fetch") =>
          (pc = "loop" /\ batch = <<>> /\ updates = <<>>)
    /\ (pc = "fetch" /\ pc' = "rows") =>
          /\ Len(batch') >= 1
          /\ Len(batch') <= batchSize
          /\ cursor = batch' \o cursor'
          /\ log' = Append(log, Ev("fetch", orderedColumns[idx]))
    /\ (pc = "fetch" /\ pc' = "close" /\ ret' = "eof") =>
          /\ cursor = <<>>
          /\ log' = Append(log, Ev("fetch", orderedColumns[idx]))
    /\ (pc = "close" /\ pc' = "column") =>
          /\ ret = "eof"
          /\ statsCols' = Append(statsCols, orderedColumns[idx])
    /\ (pc \in InLoop /\ pc' # pc) =>
          (pc' = "close" \/ Measure' < Measure)
    /\ (pc = "close" /\ pc' # pc) => pc' \in {"column", "done"}

\* C29: for a finite table and any batch size Process terminates: every
\* step of its loop shortens what is left, it stops at the first zero-length
\* fetch, every row that is not NULL is fetched exactly once, every fetched
\* row with non-empty text is in exactly one batch update with one new
\* value, a row with empty text is in none, and each non-empty batch is
\* updated before the next fetch.
C29_ProcessTerminates == []RowsOnce /\ [][LoopStep]_vars

\* a column of MaxRows rows, one of them with empty text, has been processed
\* to its end one row at a time
C29_Witness ==
    /\ batchSize = 1
    /\ \E c \in ColSet :
          /\ Finished(c)
          /\ Cardinality(NonNullCtids(c)) = MaxRows
          /\ Cardinality(NonEmptyCtids(c)) = MaxRows - 1
          /\ CountEv("fetch", c) = MaxRows + 1

----------------------------------------------------------------------------
(* The processing order holds the configured columns *)

\* GetProcessingOrder has returned without error
OrderSucceeded == pc \notin {"start", "done"} \/ txState # "None"

CountIn(seq, x) == Cardinality({k \in 1..Len(seq) : seq[k] = x})

\* C30: when GetProcessingOrder succeeds its result holds every distinct
\* configured column exactly once and no other column, so that in a
\* committed run every configured column that is not a cascade target has
\* been processed exactly once, and no cascade target has been processed.
C30_OrderIsConfiguredColumns ==
    /\ OrderSucceeded =>
          /\ SeqToSet(orderedColumns) = ColSet
          /\ \A c \in ColSet : CountIn(orderedColumns, c) = 1
    /\ txState = "Committed" =>
          \A c \in ColSet :
              IF c \in skipSet
              THEN CountIn(statsCols, c) = 0 /\ CountEv("declare", c) = 0
              ELSE CountIn(statsCols, c) = 1 /\ CountEv("declare", c) = 1

\* a committed run over a configuration that names a column twice, with a
\* cascade key between two configured columns and a cascade key whose
\* parent is not configured
C30_Witness ==
    /\ txState = "Committed"
    /\ Len(columns) > Cardinality(ColSet)
    /\ skipSet # {}
    /\ \E k \in 1..Len(fks) : /\ fks[k].parent \notin ColSet
                               /\ fks[k].child \in ColSet
                               /\ fks[k].onUpdate = "CASCADE"

====
